---- MODULE Spec2Model ----
(***************************************************************************)
(* Transaction classification and formatting pipeline of the wallet:       *)
(* SolanaService.getTransactionsHistory -> formatTransactions ->           *)
(* extractSOLAddresses / extractTokenAddresses.                            *)
(*                                                                         *)
(* Conventions.  JavaScript `undefined`/`null` in an address position is   *)
(* the string Undef.  A JavaScript number that may be NaN is a record      *)
(* [def |-> BOOLEAN, v |-> Int].  Array indices keep the 0-based values of *)
(* the source (accountIndex, indexOf); sequences are 1-based, so element   *)
(* i of the source is element i + 1 of the sequence.  An array an RPC      *)
(* record may lack is named in the record's `missing` set.                 *)
(***************************************************************************)
EXTENDS Integers, Sequences, FiniteSets, TLC

VARIABLES
    isLastTransaction,  \* argument of getTransactionsHistory
    tx,                 \* the raw transaction of the last loop iteration
    sigIdx,             \* signatures of the page consumed so far
    result,             \* the array formatTransactions accumulates
    legs,               \* history: the balance changes walked for tx
    outcome,            \* history: what became of each signature of the page
    status,             \* "formatting" | "returned" | "failed"
    returned,           \* the value getTransactionsHistory resolves to
    \* TransactionsHistoryScreen
    ledger,             \* the wallet's on-chain history, newest first
    transactions,       \* useState: the accumulated events
    loading,            \* useState
    refreshing,         \* useState
    loadingMore,        \* useState
    error,              \* useState: TRUE when an error message is set
    lastSignature,      \* useState: the pagination cursor
    hasMore,            \* useState
    prices,             \* useState
    mounted,            \* the screen component exists
    inflight,           \* calls of getTransactionsHistory awaiting their answer
    pricePending,       \* calls of getTokensPrice awaiting their answer
    resets,             \* history: focus events and pull-to-refresh gestures so far
    moreTick,           \* history: flips at every invocation of loadMore
    lastDone,           \* history: the fetch that completed last
    \* the fan-out of getTransactionsHistory
    slots,              \* what each getParsedTransaction of the page resolved to
    arrival,            \* history: the order in which they resolved
    joined,             \* the value the call resolves to
    \* groupTransactionsByDate
    groupInput,         \* the argument
    now,                \* the clock read by new Date()
    grouped,            \* the returned section list
    \* useLastTransaction
    hook,               \* useState: lastTransaction, lastTransactionTokenPrice,
                        \* isLoadTransaction, error
    hookPc,             \* where fetchTransaction stands
    hookFetch,          \* history: what the last history fetch resolved to
    \* useTransaction
    send,               \* useState: signature, isLoading, error
    sendPc,             \* where sendTransaction stands
    sendCall,           \* history: the arguments and requests of the last call
    promise             \* the promise sendTransaction returned

pageVars == <<isLastTransaction, tx, sigIdx, result, legs, outcome, status, returned>>

uiVars ==
    <<transactions, loading, refreshing, loadingMore, error, lastSignature, hasMore, prices>>

screenVars ==
    <<ledger, uiVars, mounted, inflight, pricePending, resets, moreTick, lastDone>>

joinVars == <<slots, arrival, joined>>

groupVars == <<groupInput, now, grouped>>

hookVars == <<hook, hookPc, hookFetch>>

sendVars == <<send, sendPc, sendCall, promise>>

vars == <<pageVars, screenVars, joinVars, groupVars, hookVars, sendVars>>

----------------------------------------------------------------------------
(* Bounds of the model *)

\* signatures of one fetched page that are walked by the model
MaxBatch == 2

\* transactions in the wallet's on-chain history
MaxLedger == 3

\* focus events and pull-to-refresh gestures in one life of the history screen
MaxResets == 2

\* signatures of one page whose transactions are fetched concurrently
MaxJoin == 3

\* events handed to groupTransactionsByDate
MaxEvents == 3

----------------------------------------------------------------------------
(* Program constants *)

MIN_SOL_CHANGE == 5000
LAMPORTS_PER_SOL == 1000000000
USDC_MINT == "4zMMC9srt5Ri5X14GAgXhaHii3GnPAEERYPJgZJDncDU"

Me == "me"
External == "external"
Undef == "undefined"

----------------------------------------------------------------------------
(* JavaScript value helpers *)

\* a || b on strings / undefined
OrElse(a, b) == IF a = Undef THEN b ELSE a

Num(n) == [def |-> TRUE, v |-> n]
NaN == [def |-> FALSE, v |-> 0]

\* arr[i] for a 0-based index i: undefined outside the array
At(arr, i) == IF i + 1 \in DOMAIN arr THEN Num(arr[i + 1]) ELSE NaN

\* a - b : NaN as soon as one operand is undefined
Sub(a, b) == IF a.def /\ b.def THEN Num(a.v - b.v) ELSE NaN

\* a ?? 0
Coalesce0(a) == IF a.def THEN a.v ELSE 0

Abs(n) == IF n < 0 THEN -n ELSE n

\* comparisons with NaN are false
Gt(a, n) == a.def /\ a.v > n
Lt(a, n) == a.def /\ a.v < n

\* accountKeys.indexOf(addr): 0-based, -1 when absent
IndexOf(keys, addr) ==
    IF \E i \in DOMAIN keys : keys[i] = addr
    THEN (CHOOSE i \in DOMAIN keys : keys[i] = addr /\ \A j \in 1..(i - 1) : keys[j] # addr) - 1
    ELSE -1

\* accountKeys[i] for a 0-based index
KeyAt(keys, i) == IF i + 1 \in DOMAIN keys THEN keys[i + 1] ELSE Undef

RECURSIVE Flatten(_)
Flatten(groups) ==
    IF groups = <<>> THEN <<>> ELSE Head(groups) \o Flatten(Tail(groups))

\* Array.prototype.find over the indices that satisfy the predicate: the least
\* one, 0 when there is none
FirstIndex(hits) ==
    IF hits = {} THEN 0 ELSE CHOOSE i \in hits : \A j \in hits : i <= j

----------------------------------------------------------------------------
(* Counterparty resolver, native asset: extractSOLAddresses *)

\* AllInstructions without the inner (CPI) instructions
AllInstructionsTopLevelOnly(t) == t.instructions

\* [...tx.transaction.message.instructions] followed by every inner group
AllInstructions(t) ==
    t.instructions \o
        (IF "innerInstructions" \in t.missing THEN <<>> ELSE Flatten(t.innerInstructions))

\* predicate of allInstructions.find in extractSOLAddresses
IsMySystemTransfer(ix, my) ==
    /\ ix.program = "system"
    /\ ix.type = "transfer"
    /\ (ix.source = my \/ ix.destination = my)

\* tx.meta?.preBalances || []
BalancesOrEmpty(t, field) ==
    IF field \in t.missing
    THEN <<>>
    ELSE IF field = "preBalances" THEN t.preBalances ELSE t.postBalances

\* ScanReceiver replacing the current best on a tie (>= instead of >)
RECURSIVE ScanReceiverLastWins(_, _, _, _, _, _)
ScanReceiverLastWins(keys, pre, post, myIndex, i, best) ==
    IF i >= Len(keys)
    THEN best
    ELSE LET diff == Sub(At(post, i), At(pre, i))
             next == IF i # myIndex /\ diff.def /\ diff.v >= best.maxChange
                     THEN [maxChange |-> diff.v, counterparty |-> KeyAt(keys, i)]
                     ELSE best
         IN ScanReceiverLastWins(keys, pre, post, myIndex, i + 1, next)

\* for-loop of the SENT branch: best is [maxChange, counterparty]
RECURSIVE ScanReceiver(_, _, _, _, _, _)
ScanReceiver(keys, pre, post, myIndex, i, best) ==
    IF i >= Len(keys)
    THEN best
    ELSE LET diff == Sub(At(post, i), At(pre, i))
             next == IF i # myIndex /\ Gt(diff, best.maxChange)
                     THEN [maxChange |-> diff.v, counterparty |-> KeyAt(keys, i)]
                     ELSE best
         IN ScanReceiver(keys, pre, post, myIndex, i + 1, next)

\* for-loop of the RECEIVED branch
RECURSIVE ScanSender(_, _, _, _, _, _)
ScanSender(keys, pre, post, myIndex, i, best) ==
    IF i >= Len(keys)
    THEN best
    ELSE LET diff == Sub(At(post, i), At(pre, i))
             next == IF i # myIndex /\ Lt(diff, 0) /\ Abs(diff.v) > best.maxChange
                     THEN [maxChange |-> Abs(diff.v), counterparty |-> KeyAt(keys, i)]
                     ELSE best
         IN ScanSender(keys, pre, post, myIndex, i + 1, next)

\* step 3 of extractSOLAddresses: balance change analysis
SOLFallback(t, my) ==
    LET keys == t.accountKeys
        pre == BalancesOrEmpty(t, "preBalances")
        post == BalancesOrEmpty(t, "postBalances")
        myIndex == IndexOf(keys, my)
        myDiff == Sub(At(post, myIndex), At(pre, myIndex))
        start == [maxChange |-> MIN_SOL_CHANGE, counterparty |-> External]
    IN IF myIndex = -1
       THEN [from |-> External, to |-> External]
       ELSE IF Lt(myDiff, 0)
            THEN [from |-> my,
                  to |-> ScanReceiver(keys, pre, post, myIndex, 0, start).counterparty]
            ELSE [from |-> ScanSender(keys, pre, post, myIndex, 0, start).counterparty,
                  to |-> my]

extractSOLAddresses(t, my) ==
    LET all == AllInstructions(t)
        k == FirstIndex({ i \in DOMAIN all : IsMySystemTransfer(all[i], my) })
    IN IF k # 0
       THEN [from |-> all[k].source, to |-> all[k].destination]
       ELSE SOLFallback(t, my)

----------------------------------------------------------------------------
(* Counterparty resolver, token asset: extractTokenAddresses *)

\* predicate of allInstructions.find in extractTokenAddresses
IsTokenTransfer(ix) ==
    /\ (ix.type = "transfer" \/ ix.type = "transferChecked")
    /\ ix.program = "spl-token"

\* owner of the first entry of a balance list whose account index maps to addr
OwnerIn(keys, balances, addr) ==
    LET k == FirstIndex({ i \in DOMAIN balances :
                             KeyAt(keys, balances[i].accountIndex) = addr })
    IN IF k = 0 THEN Undef ELSE balances[k].owner

resolveOwner(keys, preTokenBalances, postTokenBalances, tokenAccountAddr) ==
    OrElse(OwnerIn(keys, preTokenBalances, tokenAccountAddr),
           OwnerIn(keys, postTokenBalances, tokenAccountAddr))

\* the instruction picked by extractTokenAddresses, 0 when there is none
TokenTransferIndex(t) ==
    FirstIndex({ i \in DOMAIN AllInstructions(t) : IsTokenTransfer(AllInstructions(t)[i]) })

\* isSender without the authority test
isSenderOwnerOnly(sourceOwner, authority, accountAddress) == sourceOwner = accountAddress

isSender(sourceOwner, authority, accountAddress) ==
    sourceOwner = accountAddress \/ authority = accountAddress

\* extractTokenAddresses degrading an unresolved owner straight to "external"
extractTokenAddressesNoLiteral(t, accountAddress, tokenAccountIndex, preTokenBalances, postTokenBalances) ==
    LET all == AllInstructions(t)
        k == FirstIndex({ i \in DOMAIN all : IsTokenTransfer(all[i]) })
        info == all[k]
        keys == t.accountKeys
        sourceOwner == resolveOwner(keys, preTokenBalances, postTokenBalances, info.source)
        destOwner == resolveOwner(keys, preTokenBalances, postTokenBalances, info.destination)
    IN IF k = 0
       THEN [from |-> External, to |-> External]
       ELSE IF isSender(sourceOwner, info.authority, accountAddress)
            THEN [from |-> accountAddress, to |-> OrElse(destOwner, External)]
            ELSE [from |-> OrElse(sourceOwner, External), to |-> accountAddress]

extractTokenAddresses(t, accountAddress, tokenAccountIndex, preTokenBalances, postTokenBalances) ==
    LET all == AllInstructions(t)
        k == TokenTransferIndex(t)
        info == all[k]
        keys == t.accountKeys
        sourceOwner == resolveOwner(keys, preTokenBalances, postTokenBalances, info.source)
        destOwner == resolveOwner(keys, preTokenBalances, postTokenBalances, info.destination)
    IN IF k = 0
       THEN [from |-> External, to |-> External]
       ELSE IF isSender(sourceOwner, info.authority, accountAddress)
            THEN [from |-> accountAddress,
                  to |-> OrElse(destOwner, OrElse(info.destination, External))]
            ELSE [from |-> OrElse(sourceOwner, OrElse(info.source, External)),
                  to |-> accountAddress]

----------------------------------------------------------------------------
(* Classifier / formatter: one iteration of the loop of formatTransactions *)

NoAddr == [from |-> Undef, to |-> Undef]

\* SolAmount scaled by the six decimals of USDC instead of the nine of SOL
SolAmountSixDecimals(lamports) ==
    [whole |-> lamports \div 1000000, frac |-> lamports % 1000000]

\* diff / LAMPORTS_PER_SOL, kept exact as whole units and a nine-digit fraction
SolAmount(lamports) ==
    [whole |-> lamports \div LAMPORTS_PER_SOL, frac |-> lamports % LAMPORTS_PER_SOL]

\* a difference of uiAmounts: already in human units
UiAmount(units) == [whole |-> units, frac |-> 0]

\* tx.blockTime ? new Date(tx.blockTime * 1000) : null
TimeOf(t) ==
    IF t.blockTime = 0
    THEN [isNull |-> TRUE, ms |-> 0]
    ELSE [isNull |-> FALSE, ms |-> t.blockTime * 1000]

NoEvent ==
    [signature |-> 0, type |-> Undef, token |-> Undef, amount |-> UiAmount(0),
     from |-> Undef, to |-> Undef, time |-> [isNull |-> TRUE, ms |-> 0]]

\* the object pushed to result by either leg
MakeEvent(t, accountAddress, positive, token, amount, addresses) ==
    [signature |-> t.sig,
     type |-> IF positive THEN "received" ELSE "sent",
     token |-> token,
     amount |-> amount,
     from |-> OrElse(addresses.from, IF positive THEN External ELSE accountAddress),
     to |-> OrElse(addresses.to, IF positive THEN accountAddress ELSE External),
     time |-> TimeOf(t)]

\* tx.meta.preBalances[myIndex] ?? 0, post likewise, and their difference
NativeDiff(t, myIndex) ==
    Coalesce0(At(t.postBalances, myIndex)) - Coalesce0(At(t.preBalances, myIndex))

\* NativeLeg with the dust test written >= instead of >
NativeLegDustInclusive(t, accountAddress) ==
    LET myIndex == IndexOf(t.accountKeys, accountAddress)
        diff == NativeDiff(t, myIndex)
        called == Abs(diff) >= MIN_SOL_CHANGE
        addresses == IF called THEN extractSOLAddresses(t, accountAddress) ELSE NoAddr
        emitted == called /\ addresses.from # addresses.to
    IN [kind |-> "native", accountIndex |-> myIndex, diff |-> diff, called |-> called,
        addresses |-> addresses, emitted |-> emitted,
        event |-> IF emitted
                  THEN MakeEvent(t, accountAddress, diff > 0, "SOL",
                                 SolAmount(Abs(diff)), addresses)
                  ELSE NoEvent]

\* section 1 of the loop body (SOL transfers) for a tracked address found in accountKeys
NativeLeg(t, accountAddress) ==
    LET myIndex == IndexOf(t.accountKeys, accountAddress)
        diff == NativeDiff(t, myIndex)
        called == Abs(diff) > MIN_SOL_CHANGE
        addresses == IF called THEN extractSOLAddresses(t, accountAddress) ELSE NoAddr
        emitted == called /\ addresses.from # addresses.to
    IN [kind |-> "native", accountIndex |-> myIndex, diff |-> diff, called |-> called,
        addresses |-> addresses, emitted |-> emitted,
        event |-> IF emitted
                  THEN MakeEvent(t, accountAddress, diff > 0, "SOL",
                                 SolAmount(Abs(diff)), addresses)
                  ELSE NoEvent]

\* tx.meta.preTokenBalances ?? []
TokensOrEmpty(t, field) ==
    IF field \in t.missing
    THEN <<>>
    ELSE IF field = "preTokenBalances" THEN t.preTokenBalances ELSE t.postTokenBalances

\* (post.uiTokenAmount.uiAmount || 0) - (pre?.uiTokenAmount.uiAmount || 0)
TokenDiff(preTokens, post) ==
    LET k == FirstIndex({ i \in DOMAIN preTokens :
                             preTokens[i].accountIndex = post.accountIndex })
    IN post.uiAmount - (IF k = 0 THEN 0 ELSE preTokens[k].uiAmount)

\* post.mint === USDC_MINT ? "USDC" : post.mint
TokenSymbol(mint) == IF mint = USDC_MINT THEN "USDC" ELSE mint

\* body of the loop over postTokens for one entry owned by the tracked address
TokenLeg(t, accountAddress, post) ==
    LET preTokens == TokensOrEmpty(t, "preTokenBalances")
        postTokens == TokensOrEmpty(t, "postTokenBalances")
        diff == TokenDiff(preTokens, post)
        called == Abs(diff) # 0
        addresses == IF called
                     THEN extractTokenAddresses(t, accountAddress, post.accountIndex,
                                                preTokens, postTokens)
                     ELSE NoAddr
    IN [kind |-> "token", accountIndex |-> post.accountIndex, diff |-> diff,
        called |-> called, addresses |-> addresses, emitted |-> called,
        event |-> IF called
                  THEN MakeEvent(t, accountAddress, diff > 0, TokenSymbol(post.mint),
                                 UiAmount(Abs(diff)), addresses)
                  ELSE NoEvent]

\* section 2 of the loop body (token transfers)
TokenLegs(t, accountAddress) ==
    LET mine == SelectSeq(TokensOrEmpty(t, "postTokenBalances"),
                          LAMBDA b : b.owner = accountAddress)
    IN [k \in 1..Len(mine) |-> TokenLeg(t, accountAddress, mine[k])]

\* Skipped without the test of the error flag
SkippedIgnoringErr(t) == "meta" \in t.missing \/ "transaction" \in t.missing

\* if (!tx.meta || !tx.transaction) continue; if (tx.meta.err) continue;
Skipped(t) == "meta" \in t.missing \/ "transaction" \in t.missing \/ t.err

\* a TypeError raised by the loop body: accountKeys.map on a missing array,
\* preBalances[myIndex] / postBalances[myIndex] on a missing array
Throws(t, accountAddress) ==
    /\ ~Skipped(t)
    /\ \/ "accountKeys" \in t.missing
       \/ /\ IndexOf(t.accountKeys, accountAddress) # -1
          /\ ("preBalances" \in t.missing \/ "postBalances" \in t.missing)

\* the legs walked by one iteration that does not throw; the `continue` of a
\* native self-transfer leaves the iteration before the token section
LegsOf(t, accountAddress) ==
    IF Skipped(t)
    THEN <<>>
    ELSE IF IndexOf(t.accountKeys, accountAddress) = -1
         THEN TokenLegs(t, accountAddress)
         ELSE LET native == NativeLeg(t, accountAddress)
              IN IF native.called /\ ~native.emitted
                 THEN <<native>>
                 ELSE <<native>> \o TokenLegs(t, accountAddress)

RECURSIVE EventsOf(_)
EventsOf(ls) ==
    IF ls = <<>>
    THEN <<>>
    ELSE (IF Head(ls).emitted THEN <<Head(ls).event>> ELSE <<>>) \o EventsOf(Tail(ls))

----------------------------------------------------------------------------
(* Raw ledger transactions handed to the pipeline (ParsedTransactionWithMeta) *)

Alice == "alice"
Bob == "bob"
\* token accounts: two of the tracked wallet, one of alice
TaMe == "taMe"
TaMe2 == "taMe2"
TaAlice == "taAlice"
OtherMint == "mintX"

\* a parsed SystemProgram instruction of the given type
SysIx(ty, s, d) ==
    [program |-> "system", type |-> ty, source |-> s, destination |-> d, authority |-> Undef]

Sys(s, d) == SysIx("transfer", s, d)

\* a parsed spl-token instruction
Spl(ty, s, d, a) ==
    [program |-> "spl-token", type |-> ty, source |-> s, destination |-> d, authority |-> a]

\* an instruction of a program the RPC node does not parse (no `parsed` member)
OtherIx ==
    [program |-> "other", type |-> Undef, source |-> Undef, destination |-> Undef,
     authority |-> Undef]

\* an entry of meta.preTokenBalances / meta.postTokenBalances
TB(i, o, m, a) == [accountIndex |-> i, owner |-> o, mint |-> m, uiAmount |-> a]

RawTx(keys, top, inner, pre, post, preT, postT) ==
    [sig |-> 0, missing |-> {}, err |-> FALSE, blockTime |-> 2,
     accountKeys |-> keys, instructions |-> top, innerInstructions |-> inner,
     preBalances |-> pre, postBalances |-> post,
     preTokenBalances |-> preT, postTokenBalances |-> postT]

\* the record with one of its optional members absent
Without(t, field) ==
    IF field \in DOMAIN t
    THEN [t EXCEPT !.missing = @ \cup {field}, ![field] = <<>>]
    ELSE [t EXCEPT !.missing = @ \cup {field}]

\* three wallets, the tracked one in the middle of the account list
WalletKeys == <<Alice, Me, Bob>>
\* wallets and token accounts; token account indices are 2, 3 and 4
TokenKeys == <<Me, Alice, TaMe, TaAlice, TaMe2>>
\* the same transaction shape seen from a wallet that is not an account of it
ForeignKeys == <<Bob, Alice, TaMe, TaAlice, TaMe2>>

\* lamport deltas around the dust threshold and well above it
Deltas == {-20000, -5001, -5000, 5000, 5001, 20000}

\* A. no instruction names the tracked wallet: balance-change analysis decides
BalanceTxs ==
    { RawTx(WalletKeys, <<OtherIx>>, <<>>,
            <<1000000, 1000000, 1000000>>,
            <<1000000 + dA, 1000000 + dMe, 1000000 + dB>>, <<>>, <<>>) :
        dA \in Deltas, dMe \in {-20000, 20000}, dB \in Deltas }
    \cup
    { RawTx(WalletKeys, <<>>, <<>>,
            <<1000000, 1000000, 1000000>>,
            <<1000000 - dMe, 1000000 + dMe, 1000000>>, <<>>, <<>>) :
        dMe \in Deltas \cup {0} }

\* B. system-program instructions at top level and inside inner groups
NativeTops ==
    { <<>>,
      <<Sys(Me, Bob)>>,
      <<Sys(Bob, Me)>>,
      <<Sys(Me, Me)>>,
      <<Sys(Alice, Bob)>>,
      <<SysIx("createAccount", Me, Bob)>>,
      <<Spl("transfer", Me, Bob, Me)>>,
      <<Sys(Alice, Bob), Sys(Bob, Me)>>,
      <<Sys(Bob, Me), Sys(Me, Alice)>> }

NativeInners ==
    { <<>>,
      << <<Sys(Me, Bob)>> >>,
      << <<OtherIx>>, <<Sys(Alice, Me)>> >>,
      << <<Sys(Alice, Bob), Sys(Bob, Me)>> >> }

InstructionTxs ==
    { RawTx(WalletKeys, top, inner,
            <<1000000, 1000000, 1000000>>,
            <<1000000 - dMe, 1000000 + dMe, 1000000>>, <<>>, <<>>) :
        top \in NativeTops, inner \in NativeInners, dMe \in {-20000, 20000} }
    \cup
    { Without(RawTx(WalletKeys, top, <<>>,
                    <<1000000, 1000000, 1000000>>,
                    <<1020000, 980000, 1000000>>, <<>>, <<>>), "innerInstructions") :
        top \in NativeTops }

\* C. token transfers: the tracked wallet pays the fee only (native dust)
TokenTops ==
    { <<>>,
      <<Spl("transfer", TaMe, TaAlice, Me)>>,
      <<Spl("transferChecked", TaAlice, TaMe, Alice)>>,
      <<Spl("transfer", TaAlice, TaMe, Me)>>,
      <<Spl("transfer", TaMe, TaAlice, Bob)>>,
      <<Spl("transfer", TaMe, TaMe2, Me)>>,
      <<Spl("transfer", Undef, TaMe, Alice)>>,
      <<Spl("transferChecked", TaMe, Undef, Me)>>,
      <<Spl("mintTo", TaAlice, TaMe, Alice)>>,
      <<Sys(Alice, Bob), Spl("transfer", TaAlice, TaMe, Alice)>> }

\* pre / post uiAmount of the tracked wallet's token account; 0 pre is "no entry"
MyTokenAmounts == { <<0, 3>>, <<5, 3>>, <<5, 5>>, <<5, 0>> }

\* owner fields of alice's token account in the pre and the post list;
\* "absent" leaves the entry out of the list
CounterpartyOwners ==
    { <<"absent", "absent">>, <<Alice, Alice>>, <<Undef, Alice>>, <<Undef, Undef>>,
      <<"absent", Alice>>, <<Alice, Bob>>, <<Alice, "absent">> }

TokenEntry(i, o, m, a) == IF o = "absent" THEN <<>> ELSE <<TB(i, o, m, a)>>

TokenTx(keys, top, inner, dMe, mine, cp, second) ==
    RawTx(keys, top, inner,
          <<1000000, 1000000, 2000, 2000, 2000>>,
          <<1000000 + dMe, 1000000, 2000, 2000, 2000>>,
          TokenEntry(3, cp[1], USDC_MINT, 9)
              \o (IF mine[1] = 0 THEN <<>> ELSE <<TB(2, Me, USDC_MINT, mine[1])>>)
              \o (IF second THEN <<TB(4, Me, OtherMint, 1)>> ELSE <<>>),
          TokenEntry(3, cp[2], USDC_MINT, 9)
              \o <<TB(2, Me, USDC_MINT, mine[2])>>
              \o (IF second THEN <<TB(4, Me, OtherMint, 4)>> ELSE <<>>))

TokenTxs ==
    { TokenTx(TokenKeys, top, <<>>, -5000, mine, cp, FALSE) :
        top \in TokenTops, mine \in MyTokenAmounts, cp \in CounterpartyOwners }

\* D. native and token legs in one transaction
MixedTops ==
    { <<>>,
      <<Sys(Me, Alice), Spl("transfer", TaMe, TaAlice, Me)>>,
      <<Sys(Me, Me), Spl("transfer", TaMe, TaAlice, Me)>>,
      <<Spl("transfer", TaMe, TaMe2, Me)>> }

MixedInners == { <<>>, << <<Spl("transferChecked", TaAlice, TaMe, Alice)>> >> }

MixedTxs ==
    { TokenTx(keys, top, inner, dMe, mine, <<Alice, Alice>>, second) :
        keys \in {TokenKeys, ForeignKeys}, top \in MixedTops, inner \in MixedInners,
        dMe \in {-20000, -5000}, mine \in {<<5, 3>>, <<5, 5>>}, second \in BOOLEAN }

\* E. failed, partial and malformed records
OptionalMembers ==
    {"meta", "transaction", "accountKeys", "preBalances", "postBalances",
     "preTokenBalances", "postTokenBalances", "innerInstructions"}

SampleTxs ==
    { RawTx(WalletKeys, <<Sys(Me, Bob)>>, <<>>,
            <<1000000, 1000000, 1000000>>, <<1000000, 980000, 1020000>>, <<>>, <<>>),
      RawTx(WalletKeys, <<OtherIx>>, <<>>,
            <<1000000, 1000000, 1000000>>, <<1020000, 980000, 1000000>>, <<>>, <<>>),
      TokenTx(TokenKeys, <<Spl("transfer", TaAlice, TaMe, Alice)>>, <<>>, 0,
              <<5, 7>>, <<Alice, Alice>>, FALSE),
      TokenTx(ForeignKeys, <<Spl("transfer", TaMe, TaAlice, Me)>>, <<>>, 0,
              <<5, 3>>, <<Alice, Alice>>, FALSE) }

DamagedTxs ==
    { Without(t, m) : t \in SampleTxs, m \in OptionalMembers }
    \cup { [t EXCEPT !.err = TRUE] : t \in SampleTxs }
    \cup { [t EXCEPT !.blockTime = 0] : t \in SampleTxs }
    \cup { [t EXCEPT !.preBalances = SubSeq(@, 1, n)] : t \in SampleTxs, n \in 0..1 }
    \cup { [t EXCEPT !.postBalances = SubSeq(@, 1, n)] : t \in SampleTxs, n \in 0..1 }

\* F. a native send of 1.005 SOL by a wallet that also holds an untouched token
\* balance; the destination is named by an instruction or by its balance gain
LargeSendTxs ==
    { RawTx(TokenKeys, top, <<>>,
            <<2000000000, 1000000, 2000, 2000, 2000>>,
            <<2000000000 - out, 1000000 + out, 2000, 2000, 2000>>,
            <<TB(2, Me, USDC_MINT, 5)>>,
            <<TB(2, Me, USDC_MINT, 5)>>) :
        top \in { <<Sys(Me, Alice)>>, <<>>, <<OtherIx, Sys(Me, Alice)>> },
        out \in { 1005000000, 5000000 } }

TxSpace ==
    BalanceTxs \cup InstructionTxs \cup TokenTxs \cup MixedTxs \cup DamagedTxs
        \cup LargeSendTxs

\* the records a page of several signatures is drawn from
PageTxs == MixedTxs \cup DamagedTxs \cup SampleTxs

NoTx == RawTx(<<>>, <<>>, <<>>, <<>>, <<>>, <<>>, <<>>)

----------------------------------------------------------------------------
(* SolanaService.getTransactionsHistory: one page *)

TrackedAddress == Me

\* limit: isLastTransaction ? 1 : 20 -- the page size of the history screen is
\* bounded by MaxBatch
Limit == IF isLastTransaction THEN 1 ELSE MaxBatch

\* what getParsedTransaction may resolve to: every modelled record for the
\* single-signature query, the mixed and damaged records for a page
Fetchable == IF isLastTransaction THEN TxSpace ELSE PageTxs

NotReturned == [done |-> FALSE, isNull |-> FALSE, events |-> <<>>]

InitCall ==
    /\ tx = NoTx
    /\ sigIdx = 0
    /\ result = <<>>
    /\ legs = <<>>
    /\ outcome = <<>>
    /\ status = "formatting"
    /\ returned = NotReturned

\* the cursor before any page was fetched: undefined
NoSignature == 0

\* useState({ solana: 170, "usd-coin": 1 })
InitialPrices == [solana |-> 170, usdCoin |-> 1]

NoFetch == [reset |-> FALSE, ok |-> FALSE, overlapped |-> FALSE, empty |-> FALSE]

\* the history screen after its first render, before any effect has run
ScreenConstructed ==
    /\ transactions = <<>>
    /\ loading = TRUE
    /\ refreshing = FALSE
    /\ loadingMore = FALSE
    /\ error = FALSE
    /\ lastSignature = NoSignature
    /\ hasMore = TRUE
    /\ prices = InitialPrices
    /\ mounted = TRUE
    /\ inflight = <<>>
    /\ pricePending = 0
    /\ resets = 0
    /\ moreTick = FALSE
    /\ lastDone = NoFetch

\* no fan-out under way
JoinIdle ==
    /\ slots = <<>>
    /\ arrival = <<>>
    /\ joined = NotReturned

NotGrouped == [done |-> FALSE, sections |-> <<>>]

\* groupTransactionsByDate not called
GroupIdle ==
    /\ groupInput = [missing |-> TRUE, list |-> <<>>]
    /\ now = 0
    /\ grouped = NotGrouped

\* useState<FormattedTransaction | null>(null)
NoEventYet == [isNull |-> TRUE, event |-> NoEvent]

\* no call of fetchTransaction has been made
NoHistoryCall == [kind |-> "none", transaction |-> NoEvent]

\* useLastTransaction after its first render
HookConstructed ==
    /\ hook = [lastTransaction |-> NoEventYet, lastTransactionTokenPrice |-> 0,
               isLoadTransaction |-> FALSE, error |-> "null"]
    /\ hookPc = "idle"
    /\ hookFetch = NoHistoryCall

NoCall ==
    [wallet |-> FALSE, recipient |-> "none", tokenSymbol |-> "none",
     amount |-> [nan |-> FALSE, negative |-> FALSE, whole |-> 0, frac |-> 0],
     built |-> FALSE, signRequested |-> FALSE]

\* useTransaction after its first render
SendConstructed ==
    /\ send = [signature |-> "null", isLoading |-> FALSE, error |-> "null"]
    /\ sendPc = "idle"
    /\ sendCall = NoCall
    /\ promise = "none"

HooksConstructed == HookConstructed /\ SendConstructed

\* one call of getTransactionsHistory on its own
InitPipeline ==
    /\ InitCall
    /\ ledger = <<>>
    /\ ScreenConstructed
    /\ JoinIdle
    /\ GroupIdle
    /\ HooksConstructed

\* the history screen's call: a page of signatures
Init == isLastTransaction = FALSE /\ InitPipeline

\* the call of useLastTransaction: the latest signature only
InitLatest == isLastTransaction = TRUE /\ InitPipeline

\* getParsedTransaction resolved to null for the next signature: the filter
\* of validTxs drops it
DropNullTx ==
    /\ status = "formatting"
    /\ sigIdx < Limit
    /\ sigIdx' = sigIdx + 1
    /\ tx' = NoTx
    /\ legs' = <<>>
    /\ outcome' = Append(outcome, "null")
    /\ UNCHANGED <<isLastTransaction, result, status, returned>>
    /\ UNCHANGED <<screenVars, joinVars, groupVars, hookVars, sendVars>>

\* one iteration of the loop of formatTransactions that runs to its end
FormatTx ==
    /\ status = "formatting"
    /\ sigIdx < Limit
    /\ \E t \in Fetchable :
         LET raw == [t EXCEPT !.sig = sigIdx + 1]
         IN /\ ~Throws(raw, TrackedAddress)
            /\ tx' = raw
            /\ legs' = LegsOf(raw, TrackedAddress)
            /\ result' = result \o EventsOf(LegsOf(raw, TrackedAddress))
            /\ outcome' = Append(outcome, IF Skipped(raw) THEN "skipped" ELSE "formatted")
    /\ sigIdx' = sigIdx + 1
    /\ UNCHANGED <<isLastTransaction, status, returned>>
    /\ UNCHANGED <<screenVars, joinVars, groupVars, hookVars, sendVars>>

\* an iteration raises: the catch of getTransactionsHistory logs and returns null
FormatThrows ==
    /\ status = "formatting"
    /\ sigIdx < Limit
    /\ \E t \in Fetchable :
         LET raw == [t EXCEPT !.sig = sigIdx + 1]
         IN /\ Throws(raw, TrackedAddress)
            /\ tx' = raw
    /\ sigIdx' = sigIdx + 1
    /\ legs' = <<>>
    /\ outcome' = Append(outcome, "threw")
    /\ status' = "failed"
    /\ returned' = [done |-> TRUE, isNull |-> TRUE, events |-> <<>>]
    /\ UNCHANGED <<isLastTransaction, result>>
    /\ UNCHANGED <<screenVars, joinVars, groupVars, hookVars, sendVars>>

\* the loop is over: formatTransactions returns result, the service returns it
ReturnPage ==
    /\ status = "formatting"
    /\ status' = "returned"
    /\ returned' = [done |-> TRUE, isNull |-> FALSE, events |-> result]
    /\ UNCHANGED <<isLastTransaction, tx, sigIdx, result, legs, outcome>>
    /\ UNCHANGED <<screenVars, joinVars, groupVars, hookVars, sendVars>>

Next == DropNullTx \/ FormatTx \/ FormatThrows \/ ReturnPage

\* a page of the transaction history
Spec == Init /\ [][Next]_vars

\* the latest-transaction query
SpecLatest == InitLatest /\ [][Next]_vars

----------------------------------------------------------------------------
(* History screen: TransactionsHistoryScreen *)

\* The handlers are the closures of the last committed render.  Every state
\* update is taken to be committed before the next handler or continuation
\* runs, so a handler reads the current values of loadingMore, hasMore and
\* lastSignature.  A handler runs to its first await in one step; the code
\* after the await runs in one step together with the rest of its caller.
\*
\* A signature is its position in the ledger, 1 the newest; ledger[s] is the
\* number of events the transaction of signature s formats to (0: failed,
\* dust only or foreign).
Ledgers == UNION { [1..n -> 0..1] : n \in 0..MaxLedger }

Min(a, b) == IF a <= b THEN a ELSE b

RECURSIVE EventsBetween(_, _, _)
\* formatTransactions over the transactions of signatures first..last
EventsBetween(l, first, last) ==
    IF first > last
    THEN <<>>
    ELSE (IF l[first] = 1 THEN << [signature |-> first] >> ELSE <<>>)
             \o EventsBetween(l, first + 1, last)

\* getSignaturesForAddress(limit, before) followed by the formatting of the
\* page: the Limit signatures older than `before`, all of them from the newest
\* when `before` is undefined
PageOf(l, before) == EventsBetween(l, before + 1, Min(before + Limit, Len(l)))

\* RequestCursor that keeps the cursor on a reset
RequestCursorKept(reset, cursor) == cursor

\* reset ? undefined : lastSignature
RequestCursor(reset, cursor) == IF reset THEN NoSignature ELSE cursor

\* ListAfter that appends on a reset as well
ListAfterAlwaysAppends(reset, prev, data) == prev \o data

\* reset ? setTransactions(data) : setTransactions(prev => [...prev, ...data])
ListAfter(reset, prev, data) == IF reset THEN data ELSE prev \o data

\* CursorAfter that takes the signature of the first event of the page
CursorAfterFirstEvent(cursor, data) ==
    IF Len(data) > 0 THEN data[1].signature ELSE cursor

\* if (data.length > 0) setLastSignature(data[data.length - 1].signature)
CursorAfter(cursor, data) ==
    IF Len(data) > 0 THEN data[Len(data)].signature ELSE cursor

\* HasMoreAfter that never ends the pagination
HasMoreAfterNeverEnds(more, data) == more

\* if (data.length === 0) setHasMore(false)
HasMoreAfter(more, data) == IF Len(data) = 0 THEN FALSE ELSE more

\* the guard of loadMore: if (loadingMore || !hasMore) return
LoadMoreAllowed == ~loadingMore /\ hasMore

Overlapping(requests) ==
    [i \in DOMAIN requests |-> [requests[i] EXCEPT !.overlapped = TRUE]]

\* fetchTransactions(reset) up to its await: the state it sets and the request
\* it sends
fetchTransactionsCall(reset, caller) ==
    /\ loading' = (IF reset THEN TRUE ELSE loading)
    /\ lastSignature' = (IF reset THEN NoSignature ELSE lastSignature)
    /\ hasMore' = (IF reset THEN TRUE ELSE hasMore)
    /\ error' = FALSE
    /\ inflight' = Append(Overlapping(inflight),
                          [reset |-> reset,
                           before |-> RequestCursor(reset, lastSignature),
                           caller |-> caller,
                           cursorBefore |-> lastSignature,
                           overlapped |-> inflight # <<>>])
    /\ UNCHANGED transactions

Remove(seq, i) == SubSeq(seq, 1, i - 1) \o SubSeq(seq, i + 1, Len(seq))

\* the statements after the await with loadMore never lowering its flag
callerResumesKeepsLoadingMore(r) ==
    /\ refreshing' = (IF r.caller = "refresh" THEN FALSE ELSE refreshing)
    /\ loadingMore' = loadingMore

\* the statements of onRefresh and of loadMore after their await
callerResumes(r) ==
    /\ refreshing' = (IF r.caller = "refresh" THEN FALSE ELSE refreshing)
    /\ loadingMore' = (IF r.caller = "more" THEN FALSE ELSE loadingMore)

Done(r, ok, data) ==
    [reset |-> r.reset, ok |-> ok, overlapped |-> r.overlapped, empty |-> data = <<>>]

\* the screen gains focus: fetchPrices(); fetchTransactions(true)
Focus ==
    /\ mounted
    /\ resets < MaxResets
    /\ resets' = resets + 1
    /\ pricePending' = pricePending + 1
    /\ fetchTransactionsCall(TRUE, "focus")
    /\ UNCHANGED <<refreshing, loadingMore, prices, mounted, moreTick, lastDone, ledger>>
    /\ UNCHANGED <<pageVars, joinVars, groupVars, hookVars, sendVars>>

\* pull to refresh
onRefresh ==
    /\ mounted
    /\ resets < MaxResets
    /\ resets' = resets + 1
    /\ refreshing' = TRUE
    /\ fetchTransactionsCall(TRUE, "refresh")
    /\ UNCHANGED <<loadingMore, prices, mounted, pricePending, moreTick, lastDone, ledger>>
    /\ UNCHANGED <<pageVars, joinVars, groupVars, hookVars, sendVars>>

\* onEndReached with the guard open
loadMore ==
    /\ mounted
    /\ LoadMoreAllowed
    /\ loadingMore' = TRUE
    /\ moreTick' = ~moreTick
    /\ fetchTransactionsCall(FALSE, "more")
    /\ UNCHANGED <<refreshing, prices, mounted, pricePending, resets, lastDone, ledger>>
    /\ UNCHANGED <<pageVars, joinVars, groupVars, hookVars, sendVars>>

\* onEndReached with the guard closed: the early return
loadMoreReturns ==
    /\ mounted
    /\ ~LoadMoreAllowed
    /\ moreTick' = ~moreTick
    /\ UNCHANGED <<uiVars, mounted, inflight, pricePending, resets, lastDone, ledger>>
    /\ UNCHANGED <<pageVars, joinVars, groupVars, hookVars, sendVars>>

\* getTransactionsHistory resolves to a page: the rest of the try block, the
\* finally block and the rest of the caller
FetchResolves ==
    \E i \in DOMAIN inflight :
        LET r == inflight[i]
            data == PageOf(ledger, r.before)
        IN /\ transactions' = ListAfter(r.reset, transactions, data)
           /\ lastSignature' = CursorAfter(lastSignature, data)
           /\ hasMore' = HasMoreAfter(hasMore, data)
           /\ loading' = FALSE
           /\ callerResumes(r)
           /\ inflight' = Remove(inflight, i)
           /\ lastDone' = Done(r, TRUE, data)
           /\ UNCHANGED <<error, prices, mounted, pricePending, resets, moreTick, ledger>>
           /\ UNCHANGED <<pageVars, joinVars, groupVars, hookVars, sendVars>>

\* getTransactionsHistory resolves to null: the throw, the catch block, the
\* finally block and the rest of the caller
FetchFails ==
    \E i \in DOMAIN inflight :
        LET r == inflight[i]
        IN /\ error' = TRUE
           /\ loading' = FALSE
           /\ callerResumes(r)
           /\ inflight' = Remove(inflight, i)
           /\ lastDone' = Done(r, FALSE, <<>>)
           /\ UNCHANGED <<transactions, lastSignature, hasMore, prices, mounted,
                          pricePending, resets, moreTick, ledger>>
           /\ UNCHANGED <<pageVars, joinVars, groupVars, hookVars, sendVars>>

\* what getTokensPrice resolves to: null, or the map of prices, a price that
\* is absent being 0
PriceResponses ==
    { [isNull |-> TRUE, solana |-> 0, usdCoin |-> 0],
      [isNull |-> FALSE, solana |-> 145, usdCoin |-> 1],
      [isNull |-> FALSE, solana |-> 0, usdCoin |-> 1] }

\* response.prices[k] ?? prices[k], prices being those of the first render
PricesAfter(current, response) ==
    IF response.isNull
    THEN current
    ELSE [solana |-> IF response.solana = 0 THEN InitialPrices.solana ELSE response.solana,
          usdCoin |-> IF response.usdCoin = 0 THEN InitialPrices.usdCoin ELSE response.usdCoin]

\* getTokensPrice resolves: the rest of fetchPrices
PriceResolves ==
    /\ pricePending > 0
    /\ pricePending' = pricePending - 1
    /\ \E response \in PriceResponses : prices' = PricesAfter(prices, response)
    /\ UNCHANGED <<transactions, loading, refreshing, loadingMore, error, lastSignature,
                   hasMore, mounted, inflight, resets, moreTick, lastDone, ledger>>
    /\ UNCHANGED <<pageVars, joinVars, groupVars, hookVars, sendVars>>

\* the screen is removed from the navigation stack
Unmount ==
    /\ mounted
    /\ mounted' = FALSE
    /\ UNCHANGED <<uiVars, inflight, pricePending, resets, moreTick, lastDone, ledger>>
    /\ UNCHANGED <<pageVars, joinVars, groupVars, hookVars, sendVars>>

InitScreen ==
    /\ isLastTransaction = FALSE
    /\ InitCall
    /\ ledger \in Ledgers
    /\ ScreenConstructed
    /\ JoinIdle
    /\ GroupIdle
    /\ HooksConstructed

NextPaging ==
    \/ Focus
    \/ onRefresh
    \/ loadMore
    \/ loadMoreReturns
    \/ FetchResolves
    \/ FetchFails

\* the pagination of the history screen while it stays mounted
SpecPaging == InitScreen /\ [][NextPaging]_vars

NextLoadingMore ==
    \/ Focus
    \/ loadMore
    \/ loadMoreReturns
    \/ FetchResolves

\* the user keeps scrolling to the end of the list and every fetch succeeds:
\* onEndReached fires again whenever the guard of loadMore is open, and every
\* request is answered
SpecLoadingMore ==
    /\ InitScreen
    /\ [][NextLoadingMore]_vars
    /\ WF_vars(loadMore)
    /\ WF_vars(FetchResolves)

\* the RPC node answers the request that has waited longest
AnswerOldest == (FetchResolves \/ FetchFails) /\ inflight' = Tail(inflight)

\* the screen over a history whose transactions bear one event each
InitFetching == InitScreen /\ \A i \in DOMAIN ledger : ledger[i] = 1

\* the pagination of the history screen with a network that answers every
\* request, with a page or with a failure
SpecFetching ==
    /\ InitFetching
    /\ [][NextPaging]_vars
    /\ WF_vars(AnswerOldest)

NextScreen ==
    \/ Focus
    \/ onRefresh
    \/ loadMore
    \/ loadMoreReturns
    \/ FetchResolves
    \/ FetchFails
    \/ PriceResolves
    \/ Unmount

\* the history screen from its construction to its removal
SpecScreen == InitScreen /\ [][NextScreen]_vars

----------------------------------------------------------------------------
(* SolanaService.getTransactionsHistory: the concurrent transaction fetches *)

Pending == [state |-> "pending", tx |-> NoTx]

\* getParsedTransaction resolved to null
NullTx == [state |-> "null", tx |-> NoTx]

\* the records getParsedTransaction resolves to here: one event, no event
\* (failed on-chain), two events, and a record without meta.postBalances
JoinTxs ==
    { RawTx(WalletKeys, <<Sys(Me, Bob)>>, <<>>,
            <<1000000, 1000000, 1000000>>, <<1000000, 980000, 1020000>>, <<>>, <<>>),
      [ RawTx(WalletKeys, <<Sys(Me, Bob)>>, <<>>,
              <<1000000, 1000000, 1000000>>, <<1000000, 980000, 1020000>>, <<>>, <<>>)
          EXCEPT !.err = TRUE ],
      TokenTx(TokenKeys, <<Sys(Me, Alice), Spl("transfer", TaMe, TaAlice, Me)>>, <<>>,
              -20000, <<5, 3>>, <<Alice, Alice>>, FALSE),
      Without(RawTx(WalletKeys, <<Sys(Me, Bob)>>, <<>>,
                    <<1000000, 1000000, 1000000>>, <<1000000, 980000, 1020000>>,
                    <<>>, <<>>), "postBalances") }

\* Promise.all in the order the transactions resolved
SettledTxsByArrival(results, order) == [k \in DOMAIN order |-> results[order[k]]]

\* Promise.all: the results in the order of the promises passed in
SettledTxs(results, order) == [i \in DOMAIN results |-> results[i]]

IsTx(slot) == slot.state = "tx"

\* txs.filter(tx => tx !== null)
validTxs(txs) == SelectSeq(txs, IsTx)

RECURSIVE formatTransactions(_, _)
\* the loop of formatTransactions over an array of transactions none of which
\* raises
formatTransactions(accountAddress, txs) ==
    IF txs = <<>>
    THEN <<>>
    ELSE EventsOf(LegsOf(Head(txs).tx, accountAddress))
             \o formatTransactions(accountAddress, Tail(txs))

\* some iteration of the loop raises
formatTransactionsThrows(accountAddress, txs) ==
    \E k \in DOMAIN txs : Throws(txs[k].tx, accountAddress)

\* the call is waiting for getSignaturesForAddress
AwaitingSignatures == slots = <<>> /\ ~joined.done

\* getSignaturesForAddress resolves: an empty list is answered at once, else
\* one getParsedTransaction is sent per signature
SignaturesResolve ==
    /\ AwaitingSignatures
    /\ \E n \in 0..MaxJoin :
          /\ slots' = [i \in 1..n |-> Pending]
          /\ joined' = IF n = 0
                        THEN [done |-> TRUE, isNull |-> FALSE, events |-> <<>>]
                        ELSE joined
    /\ UNCHANGED arrival
    /\ UNCHANGED <<pageVars, screenVars, groupVars, hookVars, sendVars>>

\* one getParsedTransaction resolves, in any order
TxResolves ==
    /\ ~joined.done
    /\ \E i \in DOMAIN slots :
          /\ slots[i] = Pending
          /\ \E value \in {NullTx} \cup { [state |-> "tx", tx |-> [t EXCEPT !.sig = i]] :
                                             t \in JoinTxs } :
                slots' = [slots EXCEPT ![i] = value]
          /\ arrival' = Append(arrival, i)
    /\ UNCHANGED joined
    /\ UNCHANGED <<pageVars, screenVars, groupVars, hookVars, sendVars>>

\* a request rejects (getSignaturesForAddress or a getParsedTransaction):
\* the catch block answers null
RequestRejects ==
    /\ ~joined.done
    /\ AwaitingSignatures \/ \E i \in DOMAIN slots : slots[i] = Pending
    /\ joined' = [done |-> TRUE, isNull |-> TRUE, events |-> <<>>]
    /\ UNCHANGED <<slots, arrival>>
    /\ UNCHANGED <<pageVars, screenVars, groupVars, hookVars, sendVars>>

\* every getParsedTransaction has resolved: Promise.all resolves, the nulls are
\* filtered out and the rest is formatted
AllResolve ==
    /\ ~joined.done
    /\ slots # <<>>
    /\ \A i \in DOMAIN slots : slots[i] # Pending
    /\ LET txs == SettledTxs(slots, arrival)
       IN joined' = IF formatTransactionsThrows(TrackedAddress, validTxs(txs))
                     THEN [done |-> TRUE, isNull |-> TRUE, events |-> <<>>]
                     ELSE [done |-> TRUE, isNull |-> FALSE,
                           events |-> formatTransactions(TrackedAddress, validTxs(txs))]
    /\ UNCHANGED <<slots, arrival>>
    /\ UNCHANGED <<pageVars, screenVars, groupVars, hookVars, sendVars>>

InitJoin == isLastTransaction = FALSE /\ InitPipeline

NextJoin == SignaturesResolve \/ TxResolves \/ RequestRejects \/ AllResolve

\* one call of getTransactionsHistory with its requests answered in any order
SpecJoin == InitJoin /\ [][NextJoin]_vars

----------------------------------------------------------------------------
(* groupTransactionsByDate *)

\* A Date is its number of milliseconds since 1 January 1970, local time; the
\* milliseconds a 32-bit integer holds span December 1969 and January 1970.
MsPerMinute == 60000

MsPerDay == 86400000

MonthNames ==
    <<"January", "February", "March", "April", "May", "June", "July", "August",
      "September", "October", "November", "December">>

\* getFullYear(), getMonth(), getDate() of a Date
Civil(ms) ==
    LET day == ms \div MsPerDay
    IN IF day < 0
       THEN [year |-> 1969, month |-> 11, date |-> 32 + day]
       ELSE [year |-> 1970, month |-> 0, date |-> day + 1]

isSameDay(d1, d2) ==
    /\ Civil(d1).year = Civil(d2).year
    /\ Civil(d1).month = Civil(d2).month
    /\ Civil(d1).date = Civil(d2).date

\* setDate that stays in the month: a day before the first is ignored
setDateWithinMonth(ms, dayOfMonth) ==
    IF dayOfMonth < 1 THEN ms ELSE ms + (dayOfMonth - Civil(ms).date) * MsPerDay

\* Date.setDate: the day of the month is replaced, a day outside the month
\* rolls into the neighbouring month
setDate(ms, dayOfMonth) == ms + (dayOfMonth - Civil(ms).date) * MsPerDay

\* toLocaleDateString('en-US', { day: 'numeric', month: 'long', year: 'numeric' })
toLocaleDateString(ms) ==
    MonthNames[Civil(ms).month + 1] \o " " \o ToString(Civil(ms).date)
        \o ", " \o ToString(Civil(ms).year)

\* the title of the section a transaction belongs to
sectionTitle(transaction, today, yesterday, clock) ==
    LET date == IF transaction.time.isNull THEN clock ELSE transaction.time.ms
    IN IF isSameDay(date, today)
       THEN "Today"
       ELSE IF isSameDay(date, yesterday)
            THEN "Yesterday"
            ELSE toLocaleDateString(date)

\* PushInto that starts the section afresh at every transaction
PushIntoOverwrites(acc, title, transaction) ==
    LET hits == { k \in DOMAIN acc : acc[k].title = title }
    IN IF hits = {}
       THEN Append(acc, [title |-> title, data |-> <<transaction>>])
       ELSE [k \in DOMAIN acc |->
                IF k \in hits THEN [acc[k] EXCEPT !.data = <<transaction>>] ELSE acc[k]]

\* if (!acc[sectionTitle]) acc[sectionTitle] = []; acc[sectionTitle].push(transaction)
\* -- the keys of acc are kept in the order of their insertion
PushInto(acc, title, transaction) ==
    LET hits == { k \in DOMAIN acc : acc[k].title = title }
    IN IF hits = {}
       THEN Append(acc, [title |-> title, data |-> <<transaction>>])
       ELSE [k \in DOMAIN acc |->
                IF k \in hits
                THEN [acc[k] EXCEPT !.data = Append(@, transaction)]
                ELSE acc[k]]

RECURSIVE reduce(_, _, _, _, _)
\* transactions.reduce((acc, transaction) => ..., {})
reduce(acc, txs, today, yesterday, clock) ==
    IF txs = <<>>
    THEN acc
    ELSE reduce(PushInto(acc, sectionTitle(Head(txs), today, yesterday, clock), Head(txs)),
                Tail(txs), today, yesterday, clock)

\* groupTransactionsByDate with the sections handed out last-seen first
groupTransactionsByDateLastFirst(input, clock) ==
    IF input.missing \/ Len(input.list) = 0
    THEN <<>>
    ELSE LET today == clock
             yesterday == setDate(clock, Civil(today).date - 1)
             acc == reduce(<<>>, input.list, today, yesterday, clock)
         IN [k \in DOMAIN acc |-> acc[Len(acc) + 1 - k]]

\* the exported function; Object.keys(grouped).map(...) keeps the order of acc
groupTransactionsByDate(input, clock) ==
    IF input.missing \/ Len(input.list) = 0
    THEN <<>>
    ELSE LET today == clock
             yesterday == setDate(clock, Civil(today).date - 1)
         IN reduce(<<>>, input.list, today, yesterday, clock)

\* times of the events handed in: none, one minute before and one minute after
\* the midnight that opens 1970, noon two days before, noon a day after
EventTimes ==
    { [isNull |-> TRUE, ms |-> 0],
      [isNull |-> FALSE, ms |-> -MsPerMinute],
      [isNull |-> FALSE, ms |-> MsPerMinute],
      [isNull |-> FALSE, ms |-> -MsPerDay - 720 * MsPerMinute],
      [isNull |-> FALSE, ms |-> MsPerDay + 720 * MsPerMinute] }

\* the clock: two minutes into 1 January 1970, or noon of 2 January 1970
Clocks == { 2 * MsPerMinute, MsPerDay + 720 * MsPerMinute }

\* the lists handed in: every event is known by its position
GroupInputs ==
    { [missing |-> TRUE, list |-> <<>>] }
    \cup
    { [missing |-> FALSE,
       list |-> [i \in DOMAIN times |-> [signature |-> i, time |-> times[i]]]] :
        times \in UNION { [1..n -> EventTimes] : n \in 0..MaxEvents } }

InitGroup ==
    /\ isLastTransaction = FALSE
    /\ InitCall
    /\ ledger = <<>>
    /\ ScreenConstructed
    /\ JoinIdle
    /\ groupInput \in GroupInputs
    /\ now \in Clocks
    /\ grouped = NotGrouped
    /\ HooksConstructed

\* useMemo(() => groupTransactionsByDate(transactions), [transactions])
Group ==
    /\ ~grouped.done
    /\ grouped' = [done |-> TRUE, sections |-> groupTransactionsByDate(groupInput, now)]
    /\ UNCHANGED <<groupInput, now>>
    /\ UNCHANGED <<pageVars, screenVars, joinVars, hookVars, sendVars>>

NextGroup == Group

\* one call of groupTransactionsByDate
SpecGroup == InitGroup /\ [][NextGroup]_vars

----------------------------------------------------------------------------
(* useLastTransaction: the hook of the last activity *)

\* TOKENS[symbol]?.name, Undef for a symbol that is not a key of TOKENS
TokenName(symbol) ==
    CASE symbol = "SOL" -> "Solana"
      [] symbol = "USDC" -> "USD Coin"
      [] OTHER -> Undef

\* tokenInfo.name === "USD Coin" ? "usd-coin" : tokenInfo.name.toLowerCase()
ApiId(name) == IF name = "USD Coin" THEN "usd-coin" ELSE "solana"

\* the transactions getParsedTransaction can answer for the one signature
\* asked for: those of the join machine, a token-only transfer and a transfer
\* of a mint that is not in TOKENS, each under any signature of the ledger
HookTxs ==
    { [t EXCEPT !.sig = s] :
        t \in JoinTxs
              \cup { TokenTx(TokenKeys, <<Spl("transfer", TaMe, TaAlice, Me)>>, <<>>,
                             -5000, <<5, 3>>, <<Alice, Alice>>, FALSE),
                     TokenTx(TokenKeys, <<Spl("transfer", TaAlice, TaMe2, Alice)>>, <<>>,
                             -5000, <<5, 5>>, <<Alice, Alice>>, TRUE) },
        s \in 1..MaxLedger }

\* what getTransactionsHistory(connection, address, true) resolves to: null
\* when the signature request or the formatting raised, else the events of at
\* most one transaction
HistoryResponses ==
    { [isNull |-> TRUE, events |-> <<>>], [isNull |-> FALSE, events |-> <<>>] }
        \cup { IF Throws(t, TrackedAddress)
               THEN [isNull |-> TRUE, events |-> <<>>]
               ELSE [isNull |-> FALSE,
                     events |-> formatTransactions(TrackedAddress,
                                                   <<[state |-> "tx", tx |-> t]>>)] :
               t \in HookTxs }

\* priceData?.prices[apiId] ?? 0
PriceOf(response, apiId) ==
    IF response.isNull
    THEN 0
    ELSE IF apiId = "usd-coin" THEN response.usdCoin ELSE response.solana

\* setLastTransactionTokenPrice(price); setLastTransaction(transaction); and
\* the finally block
ShowTransaction(transaction, price) ==
    [hook EXCEPT !.lastTransactionTokenPrice = price,
                 !.lastTransaction = [isNull |-> FALSE, event |-> transaction],
                 !.isLoadTransaction = FALSE]

\* fetchTransaction up to its first await (the mount effect and refetch both
\* call it); without a wallet or a connection it clears the state and returns
fetchTransaction ==
    /\ hookPc = "idle"
    /\ \E ready \in BOOLEAN :
         IF ~ready
         THEN /\ hook' = [hook EXCEPT !.lastTransaction = NoEventYet, !.error = "null"]
              /\ hookFetch' = [kind |-> "skipped", transaction |-> NoEvent]
              /\ UNCHANGED hookPc
         ELSE /\ hook' = [hook EXCEPT !.isLoadTransaction = TRUE, !.error = "null"]
              /\ hookFetch' = [kind |-> "pending", transaction |-> NoEvent]
              /\ hookPc' = "history"
    /\ UNCHANGED <<pageVars, screenVars, joinVars, groupVars, sendVars>>

\* getTransactionsHistory resolves (it never rejects: its own catch answers
\* null, so nothing reaches the catch block of fetchTransaction)
HistoryResolves ==
    /\ hookPc = "history"
    /\ \E r \in HistoryResponses :
         IF r.isNull \/ r.events = <<>>
         THEN /\ hook' = [hook EXCEPT !.lastTransaction = NoEventYet,
                                      !.lastTransactionTokenPrice = 0,
                                      !.isLoadTransaction = FALSE]
              /\ hookFetch' = [kind |-> IF r.isNull THEN "failed" ELSE "empty",
                               transaction |-> NoEvent]
              /\ hookPc' = "idle"
         ELSE IF TokenName(r.events[1].token) = Undef
              THEN /\ hook' = ShowTransaction(r.events[1], 0)
                   /\ hookFetch' = [kind |-> "unpriced", transaction |-> r.events[1]]
                   /\ hookPc' = "idle"
              ELSE /\ hookFetch' = [kind |-> "pending", transaction |-> r.events[1]]
                   /\ hookPc' = "price"
                   /\ UNCHANGED hook
    /\ UNCHANGED <<pageVars, screenVars, joinVars, groupVars, sendVars>>

\* getTokensPrice([apiId]) resolves
TokenPriceResolves ==
    /\ hookPc = "price"
    /\ \E response \in PriceResponses :
         hook' = ShowTransaction(hookFetch.transaction,
                     PriceOf(response, ApiId(TokenName(hookFetch.transaction.token))))
    /\ hookFetch' = [hookFetch EXCEPT !.kind = "priced"]
    /\ hookPc' = "idle"
    /\ UNCHANGED <<pageVars, screenVars, joinVars, groupVars, sendVars>>

\* getTokensPrice([apiId]) rejects: the inner catch warns and keeps price = 0
TokenPriceRejects ==
    /\ hookPc = "price"
    /\ hook' = ShowTransaction(hookFetch.transaction, 0)
    /\ hookFetch' = [hookFetch EXCEPT !.kind = "priceFailed"]
    /\ hookPc' = "idle"
    /\ UNCHANGED <<pageVars, screenVars, joinVars, groupVars, sendVars>>

InitHook == isLastTransaction = TRUE /\ InitPipeline

NextHook == fetchTransaction \/ HistoryResolves \/ TokenPriceResolves \/ TokenPriceRejects

\* the mounted hook and its refetches
SpecHook == InitHook /\ [][NextHook]_vars

----------------------------------------------------------------------------
(* useTransaction: sendTransaction *)

\* Number.MAX_SAFE_INTEGER = 2^53 - 1 = 9007199254740991, in two digits of
\* base 10^9
MAX_SAFE_INTEGER == [hi |-> 9007199, lo |-> 254740991]

\* the recipient strings tried: the own wallet, another wallet, and two
\* strings that are no base58 public key
Recipients == {Me, Alice, "not-a-key", ""}

\* new PublicKey(recipientAddress) does not raise
IsPublicKey(address) == address \in {Me, Alice, Bob}

Symbols == {"SOL", "USDC", "BONK"}

\* token.decimals || 9
Decimals(tokenSymbol) == IF tokenSymbol = "USDC" THEN 6 ELSE 9

\* token.mint is null for the native asset
HasMint(tokenSymbol) == tokenSymbol = "USDC"

\* Math.pow(10, n) for n in 0..9
Pow10(n) == CASE n = 0 -> 1 [] n = 3 -> 1000 [] n = 6 -> 1000000 [] OTHER -> 1000000000

\* a JavaScript number as sign, whole part and billionths; the amounts tried
\* are NaN, 0, -1, 0.0000005, 1.5, 9007199 and 9007200
Amount(negative, whole, frac) ==
    [nan |-> FALSE, negative |-> negative, whole |-> whole, frac |-> frac]

Amounts ==
    { [nan |-> TRUE, negative |-> FALSE, whole |-> 0, frac |-> 0],
      Amount(FALSE, 0, 0), Amount(TRUE, 1, 0), Amount(FALSE, 0, 500),
      Amount(FALSE, 1, 500000000), Amount(FALSE, 9007199, 0), Amount(FALSE, 9007200, 0) }

\* BigInt(Math.floor(amount * Math.pow(10, decimals))) of a number that is
\* not negative, in two digits of base 10^9
amountRaw(amount, decimals) ==
    [hi |-> amount.whole \div Pow10(9 - decimals),
     lo |-> (amount.whole % Pow10(9 - decimals)) * Pow10(decimals)
                + amount.frac \div Pow10(9 - decimals)]

\* amountRaw <= BigInt(0): the floor of a negative number is negative
NotPositive(amount, decimals) ==
    \/ amount.negative
    \/ amountRaw(amount, decimals) = [hi |-> 0, lo |-> 0]

\* amountRaw > BigInt(Number.MAX_SAFE_INTEGER)
TooLarge(amount, decimals) ==
    LET raw == amountRaw(amount, decimals)
    IN  \/ raw.hi > MAX_SAFE_INTEGER.hi
        \/ raw.hi = MAX_SAFE_INTEGER.hi /\ raw.lo > MAX_SAFE_INTEGER.lo

\* the try block of sendTransaction up to its first await with the self-send
\* test left out
FirstThrowAllowsSelf(wallet, recipientAddress, amount, tokenSymbol) ==
    CASE ~wallet -> "Wallet not connected. Please sign in."
      [] ~IsPublicKey(recipientAddress) -> "Invalid recipient address format."
      [] TokenName(tokenSymbol) = Undef -> "Unknown token selected."
      [] amount.nan -> "RangeError"
      [] NotPositive(amount, Decimals(tokenSymbol)) -> "Amount must be greater than 0."
      [] TooLarge(amount, Decimals(tokenSymbol))
             -> "Amount is too large to process safely."
      [] OTHER -> "none"

\* the try block of sendTransaction up to its first await: the message of the
\* first error thrown ("RangeError" is the one BigInt raises for NaN), or
\* "none"
FirstThrow(wallet, recipientAddress, amount, tokenSymbol) ==
    CASE ~wallet -> "Wallet not connected. Please sign in."
      [] recipientAddress = Me -> "You cannot send funds to yourself."
      [] ~IsPublicKey(recipientAddress) -> "Invalid recipient address format."
      [] TokenName(tokenSymbol) = Undef -> "Unknown token selected."
      [] amount.nan -> "RangeError"
      [] NotPositive(amount, Decimals(tokenSymbol)) -> "Amount must be greater than 0."
      [] TooLarge(amount, Decimals(tokenSymbol))
             -> "Amount is too large to process safely."
      [] OTHER -> "none"

\* catch (err) { setError(message); throw err } finally { setIsLoading(false) }
Failed(message) == [send EXCEPT !.isLoading = FALSE, !.error = message]

\* sendTransaction is called (one call at a time, as the swipe button of the
\* screen makes them) and runs to its first await; a validation that throws is
\* caught, recorded and thrown again, which rejects the promise returned
sendTransaction ==
    /\ sendPc = "idle"
    /\ \E wallet \in BOOLEAN, recipientAddress \in Recipients,
          amount \in Amounts, tokenSymbol \in Symbols :
         LET thrown == FirstThrow(wallet, recipientAddress, amount, tokenSymbol)
         IN  /\ sendCall' = [wallet |-> wallet, recipient |-> recipientAddress,
                             tokenSymbol |-> tokenSymbol, amount |-> amount,
                             built |-> FALSE, signRequested |-> FALSE]
             /\ IF thrown = "none"
                THEN /\ send' = [signature |-> "null", isLoading |-> TRUE,
                                 error |-> "null"]
                     /\ sendPc' = "building"
                     /\ promise' = "pending"
                ELSE /\ send' = [signature |-> "null", isLoading |-> FALSE,
                                 error |-> thrown]
                     /\ sendPc' = "idle"
                     /\ promise' = "rejected"
    /\ UNCHANGED <<pageVars, screenVars, joinVars, groupVars, hookVars>>

\* createTransferInstructions resolves and signAndSendTransaction is called
InstructionsResolve ==
    /\ sendPc = "building"
    /\ sendCall' = [sendCall EXCEPT !.built = TRUE, !.signRequested = TRUE]
    /\ sendPc' = "signing"
    /\ UNCHANGED <<send, promise>>
    /\ UNCHANGED <<pageVars, screenVars, joinVars, groupVars, hookVars>>

\* createTransferInstructions rejects: only the token branch awaits the
\* network (getAccountInfo)
InstructionsReject ==
    /\ sendPc = "building"
    /\ HasMint(sendCall.tokenSymbol)
    /\ \E message \in {"failed to get info about account", "Transaction failed"} :
         send' = Failed(message)
    /\ sendPc' = "idle"
    /\ promise' = "rejected"
    /\ UNCHANGED sendCall
    /\ UNCHANGED <<pageVars, screenVars, joinVars, groupVars, hookVars>>

\* signAndSendTransaction resolves: setSignature(txSignature); return it
SignResolves ==
    /\ sendPc = "signing"
    /\ send' = [send EXCEPT !.signature = "txSignature", !.isLoading = FALSE]
    /\ sendPc' = "idle"
    /\ promise' = "resolved"
    /\ UNCHANGED sendCall
    /\ UNCHANGED <<pageVars, screenVars, joinVars, groupVars, hookVars>>

\* signAndSendTransaction rejects with an Error or with another value
SignRejects ==
    /\ sendPc = "signing"
    /\ \E message \in {"User rejected the request", "Transaction failed"} :
         send' = Failed(message)
    /\ sendPc' = "idle"
    /\ promise' = "rejected"
    /\ UNCHANGED sendCall
    /\ UNCHANGED <<pageVars, screenVars, joinVars, groupVars, hookVars>>

InitSend == isLastTransaction = FALSE /\ InitPipeline

NextSend ==
    \/ sendTransaction
    \/ InstructionsResolve
    \/ InstructionsReject
    \/ SignResolves
    \/ SignRejects

\* the calls of sendTransaction made one after another
SpecSend == InitSend /\ [][NextSend]_vars

----------------------------------------------------------------------------
(* Properties *)

\* the last iteration formatted a transaction (it neither skipped it nor raised)
Formatted ==
    /\ sigIdx > 0
    /\ outcome[sigIdx] = "formatted"

Positive(amount) == amount.whole > 0 \/ (amount.whole = 0 /\ amount.frac > 0)

\* C1: for every emitted event exactly one of from / to is the tracked address.
C1_ExactlyOneSideTracked ==
    \A i \in DOMAIN result :
        (result[i].from = TrackedAddress) # (result[i].to = TrackedAddress)

\* C2: a leg whose resolver returned from = to emits no event, native or token.
C2_SelfTransferNeverEmitted ==
    \A k \in DOMAIN legs :
        (legs[k].called /\ legs[k].addresses.from = legs[k].addresses.to)
            => ~legs[k].emitted

\* uiAmount the pre-transaction list carries for an account index, 0 without entry
PreUiAmount(t, idx) ==
    LET hits == { q \in DOMAIN t.preTokenBalances :
                    t.preTokenBalances[q].accountIndex = idx }
    IN IF hits = {} \/ "preTokenBalances" \in t.missing
       THEN 0
       ELSE t.preTokenBalances[CHOOSE q \in hits : \A r \in hits : q <= r].uiAmount

\* post-transaction token balances of the tracked address whose amount changed
ChangedTokenBalances(t) ==
    IF "postTokenBalances" \in t.missing
    THEN {}
    ELSE { p \in DOMAIN t.postTokenBalances :
             /\ t.postTokenBalances[p].owner = TrackedAddress
             /\ t.postTokenBalances[p].uiAmount
                    # PreUiAmount(t, t.postTokenBalances[p].accountIndex) }

\* C3: every post-transaction token balance of the tracked address with a
\* non-zero delta yields an event carrying the transaction's signature and time,
\* whatever happened to the native leg.
C3_TokenLegsIndependentOfNative ==
    Formatted =>
        \A p \in ChangedTokenBalances(tx) :
            \E k \in DOMAIN legs :
                /\ legs[k].kind = "token"
                /\ legs[k].accountIndex = tx.postTokenBalances[p].accountIndex
                /\ legs[k].emitted
                /\ legs[k].event.signature = tx.sig
                /\ legs[k].event.time = TimeOf(tx)
                /\ \E i \in DOMAIN result : result[i] = legs[k].event

\* positions of the tracked address in the account list of a raw transaction
TrackedPositions(t) == { i \in DOMAIN t.accountKeys : t.accountKeys[i] = TrackedAddress }

EntryOr0(arr, i) == IF i \in DOMAIN arr THEN arr[i] ELSE 0

\* postBalance - preBalance of the tracked account, a missing entry read as 0
TrackedLamportDelta(t) ==
    LET i == CHOOSE i \in TrackedPositions(t) : TRUE
    IN EntryOr0(t.postBalances, i) - EntryOr0(t.preBalances, i)

NativeEventsOfTx == { i \in DOMAIN result : result[i].signature = tx.sig /\ result[i].token = "SOL" }
TokenEventsOfTx == { i \in DOMAIN result : result[i].signature = tx.sig /\ result[i].token # "SOL" }

\* C4: every event has amount > 0; a native event exists only when the tracked
\* account's |postBalance - preBalance| exceeds 5000 lamports and then carries
\* that change, and every token event carries a non-zero token delta of the
\* tracked address.
C4_AmountsStemFromBalanceChanges ==
    /\ \A i \in DOMAIN result : Positive(result[i].amount)
    /\ Formatted =>
         /\ \A i \in NativeEventsOfTx :
               /\ TrackedPositions(tx) # {}
               /\ Abs(TrackedLamportDelta(tx)) > MIN_SOL_CHANGE
               /\ result[i].amount.whole * LAMPORTS_PER_SOL + result[i].amount.frac
                      = Abs(TrackedLamportDelta(tx))
               /\ result[i].amount.frac < LAMPORTS_PER_SOL
         /\ \A i \in TokenEventsOfTx :
               \E p \in ChangedTokenBalances(tx) :
                   LET post == tx.postTokenBalances[p]
                   IN /\ result[i].token = TokenSymbol(post.mint)
                      /\ result[i].amount
                             = UiAmount(Abs(post.uiAmount - PreUiAmount(tx, post.accountIndex)))

\* a transaction whose native change is exactly the dust threshold was formatted:
\* its token event is in the output, no native event is
C4_Witness ==
    /\ Formatted
    /\ TrackedPositions(tx) # {}
    /\ Abs(TrackedLamportDelta(tx)) = MIN_SOL_CHANGE
    /\ NativeEventsOfTx = {}
    /\ TokenEventsOfTx # {}

\* C5: an iteration over a transaction with the error flag set, or without
\* meta, adds no event whatever its balance arrays hold, keeps the events of the
\* transactions before it and leaves the loop running for those after it.
C5_FailedTxContributesNothing ==
    [][ ( /\ sigIdx' = sigIdx + 1
          /\ outcome'[sigIdx'] # "null"
          /\ (tx'.err \/ "meta" \in tx'.missing) )
        => ( /\ result' = result
             /\ status' = status
             /\ returned' = returned ) ]_vars

\* the second transaction of a page failed on-chain although its balances show
\* a native change above the dust threshold; the events of the first are kept
C5_Witness ==
    /\ outcome = <<"formatted", "skipped">>
    /\ tx.err
    /\ TrackedPositions(tx) # {}
    /\ Abs(TrackedLamportDelta(tx)) > MIN_SOL_CHANGE
    /\ result # <<>>
    /\ \A i \in DOMAIN result : result[i].signature = 1
    /\ status = "formatting"

\* C6: a malformed or partial raw transaction never makes getTransactionsHistory
\* fail (resolve to null) and never costs the page the events of its other
\* transactions.
C6_MalformedTxSkippedOnItsOwn ==
    /\ status # "failed"
    /\ returned.done => (~returned.isNull /\ returned.events = result)

\* every instruction of a raw transaction, top-level or of an inner group
InstructionSet(t) ==
    { t.instructions[i] : i \in DOMAIN t.instructions }
    \cup
    (IF "innerInstructions" \in t.missing
     THEN {}
     ELSE UNION { { t.innerInstructions[g][j] : j \in DOMAIN t.innerInstructions[g] } :
                    g \in DOMAIN t.innerInstructions })

\* system transfers whose source or destination is the tracked address
TrackedSystemTransfers(t) ==
    { ix \in InstructionSet(t) :
        /\ ix.program = "system"
        /\ ix.type = "transfer"
        /\ (ix.source = TrackedAddress \/ ix.destination = TrackedAddress) }

\* the native leg of the last iteration asked the resolver for its counterparty
NativeResolved ==
    /\ Formatted
    /\ legs # <<>>
    /\ legs[1].kind = "native"
    /\ legs[1].called

\* account positions other than the tracked one whose lamport delta is known
OtherAccounts(t) ==
    { i \in DOMAIN t.accountKeys \ TrackedPositions(t) :
        i \in DOMAIN t.preBalances /\ i \in DOMAIN t.postBalances }

LamportDelta(t, i) == t.postBalances[i] - t.preBalances[i]

\* the tracked account's delta is known and negative
TrackedDeltaNegative(t) ==
    \E i \in TrackedPositions(t) :
        /\ i \in DOMAIN t.preBalances
        /\ i \in DOMAIN t.postBalances
        /\ LamportDelta(t, i) < 0

TrackedDeltaKnown(t) ==
    \E i \in TrackedPositions(t) : i \in DOMAIN t.preBalances /\ i \in DOMAIN t.postBalances

Gainers(t) == { i \in OtherAccounts(t) : LamportDelta(t, i) > MIN_SOL_CHANGE }
Losers(t) == { i \in OtherAccounts(t) : LamportDelta(t, i) < -MIN_SOL_CHANGE }

\* the address of the candidate of largest magnitude, the first in account
\* order among equals; External without candidate
LargestFirst(t, candidates) ==
    IF candidates = {}
    THEN External
    ELSE t.accountKeys[
            CHOOSE i \in candidates :
                \A j \in candidates :
                    \/ Abs(LamportDelta(t, i)) > Abs(LamportDelta(t, j))
                    \/ (Abs(LamportDelta(t, i)) = Abs(LamportDelta(t, j)) /\ i <= j) ]

\* the pair the balance-delta rule of the design yields
BalanceDeltaPair(t) ==
    IF TrackedDeltaNegative(t)
    THEN [from |-> TrackedAddress, to |-> LargestFirst(t, Gainers(t))]
    ELSE [from |-> LargestFirst(t, Losers(t)), to |-> TrackedAddress]

\* C7: when a system transfer naming the tracked address exists among the
\* top-level or inner instructions, the resolver returns the source and
\* destination of such an instruction; the balance-delta rule answers only
\* when there is none.
C7_InstructionIsAuthoritative ==
    NativeResolved =>
        IF TrackedSystemTransfers(tx) # {}
        THEN /\ \E ix \in TrackedSystemTransfers(tx) :
                    legs[1].addresses = [from |-> ix.source, to |-> ix.destination]
             /\ LET top == { i \in DOMAIN tx.instructions :
                               tx.instructions[i] \in TrackedSystemTransfers(tx) }
                    first == CHOOSE i \in top : \A j \in top : i <= j
                IN top # {} =>
                     legs[1].addresses = [from |-> tx.instructions[first].source,
                                          to |-> tx.instructions[first].destination]
        ELSE legs[1].addresses = BalanceDeltaPair(tx)

\* the only transfer naming the tracked address sits in an inner group, and the
\* balance deltas point to another counterparty than the instruction
C7_Witness ==
    /\ NativeResolved
    /\ TrackedSystemTransfers(tx) # {}
    /\ \A i \in DOMAIN tx.instructions : tx.instructions[i] \notin TrackedSystemTransfers(tx)
    /\ legs[1].addresses # BalanceDeltaPair(tx)
    /\ legs[1].emitted

\* C8: balance-delta fallback.  Tracked delta negative: the receiver is the other
\* account with the largest delta above 5000; otherwise the sender is the other
\* account with the largest loss above 5000; the first in account order wins a
\* tie and "external" stands in when no account qualifies.
C8_FallbackLargestDeltaFirstWins ==
    (NativeResolved /\ TrackedSystemTransfers(tx) = {} /\ TrackedDeltaKnown(tx)) =>
        IF TrackedLamportDelta(tx) < 0
        THEN /\ legs[1].addresses.from = TrackedAddress
             /\ legs[1].addresses.to = LargestFirst(tx, Gainers(tx))
        ELSE /\ legs[1].addresses.to = TrackedAddress
             /\ legs[1].addresses.from = LargestFirst(tx, Losers(tx))

\* two other accounts gained the same largest amount: the earlier one is named
C8_Witness ==
    /\ NativeResolved
    /\ TrackedSystemTransfers(tx) = {}
    /\ TrackedDeltaKnown(tx)
    /\ TrackedLamportDelta(tx) < 0
    /\ \E i, j \in Gainers(tx) :
          /\ i < j
          /\ LamportDelta(tx, i) = LamportDelta(tx, j)
          /\ \A k \in Gainers(tx) : LamportDelta(tx, k) <= LamportDelta(tx, i)
          /\ legs[1].addresses.to = tx.accountKeys[i]

IsSplTransfer(ix) ==
    ix.program = "spl-token" /\ ix.type \in {"transfer", "transferChecked"}

\* the token transfer the resolver works from: the first top-level one, else the
\* first of the inner groups in group order
LocatedTransfer(t) ==
    LET top == { i \in DOMAIN t.instructions : IsSplTransfer(t.instructions[i]) }
        inner == { p \in UNION { { <<g, j>> : j \in DOMAIN t.innerInstructions[g] } :
                                   g \in DOMAIN t.innerInstructions } :
                     IsSplTransfer(t.innerInstructions[p[1]][p[2]]) }
        at == CHOOSE p \in inner :
                  \A q \in inner : p[1] < q[1] \/ (p[1] = q[1] /\ p[2] <= q[2])
    IN IF top # {}
       THEN t.instructions[CHOOSE i \in top : \A j \in top : i <= j]
       ELSE t.innerInstructions[at[1]][at[2]]

HasTokenTransfer(t) == \E ix \in InstructionSet(t) : IsSplTransfer(ix)

\* owners a token-balance list names for the token account at an address
OwnersNamed(t, balances, addr) ==
    { balances[k].owner : k \in
        { k \in DOMAIN balances :
            /\ balances[k].accountIndex + 1 \in DOMAIN t.accountKeys
            /\ t.accountKeys[balances[k].accountIndex + 1] = addr
            /\ balances[k].owner # Undef } }

\* the owning wallet of a token account: pre-balance list first, then post
TokenOwner(t, addr) ==
    LET pre == OwnersNamed(t, t.preTokenBalances, addr)
        post == OwnersNamed(t, t.postTokenBalances, addr)
    IN IF pre # {} THEN CHOOSE o \in pre : TRUE
       ELSE IF post # {} THEN CHOOSE o \in post : TRUE
       ELSE Undef

FirstDefined(owner, literal) ==
    IF owner # Undef THEN owner ELSE IF literal # Undef THEN literal ELSE External

TrackedIsSender(t) ==
    \/ TokenOwner(t, LocatedTransfer(t).source) = TrackedAddress
    \/ LocatedTransfer(t).authority = TrackedAddress

\* token legs of the last iteration resolved from a transfer instruction
ResolvedTokenLegs ==
    { k \in DOMAIN legs :
        /\ Formatted
        /\ legs[k].kind = "token"
        /\ legs[k].called
        /\ HasTokenTransfer(tx) }

\* C9: the tracked address is the sender iff it owns the source token account
\* or is the authority; as sender the pair is {tracked, destination owner else
\* literal destination else external}, otherwise {source owner else literal
\* source else external, tracked}; owners come from the pre-balance list before
\* the post-balance list.
C9_TokenResolution ==
    \A k \in ResolvedTokenLegs :
        LET ix == LocatedTransfer(tx)
        IN legs[k].addresses =
              IF TrackedIsSender(tx)
              THEN [from |-> TrackedAddress,
                    to |-> FirstDefined(TokenOwner(tx, ix.destination), ix.destination)]
              ELSE [from |-> FirstDefined(TokenOwner(tx, ix.source), ix.source),
                    to |-> TrackedAddress]

\* a delegated transfer: the tracked address is the authority, the source token
\* account belongs to another wallet, and the lists disagree on no owner
C9_Witness ==
    \E k \in ResolvedTokenLegs :
        /\ LocatedTransfer(tx).authority = TrackedAddress
        /\ TokenOwner(tx, LocatedTransfer(tx).source) = Alice
        /\ legs[k].addresses.from = TrackedAddress
        /\ legs[k].emitted

\* the token account of the other side of the located transfer
CounterpartyAccount(t) ==
    IF TrackedIsSender(t) THEN LocatedTransfer(t).destination ELSE LocatedTransfer(t).source

CounterpartyField(t, e) == IF TrackedIsSender(t) THEN e.to ELSE e.from

\* token legs whose counterparty account has an owner in neither balance list
OwnerlessLegs ==
    { k \in ResolvedTokenLegs : TokenOwner(tx, CounterpartyAccount(tx)) = Undef }

\* C10 as stated: without an owner for the counterparty's token account the
\* event is still emitted and its counterparty is "external".
C10_OwnerlessCounterpartyIsExternal ==
    \A k \in OwnerlessLegs :
        /\ legs[k].emitted
        /\ \E i \in DOMAIN result : result[i] = legs[k].event
        /\ CounterpartyField(tx, legs[k].event) = External

\* C10 amended: the event is still emitted; its counterparty is the token-account
\* address the instruction names, and "external" only when it names none.
C10_OwnerlessCounterpartyIsLiteral ==
    \A k \in OwnerlessLegs :
        /\ legs[k].emitted
        /\ \E i \in DOMAIN result : result[i] = legs[k].event
        /\ CounterpartyField(tx, legs[k].event) =
              IF CounterpartyAccount(tx) # Undef THEN CounterpartyAccount(tx) ELSE External

\* an event whose counterparty is the literal token account of the instruction
C10_Witness ==
    \E k \in OwnerlessLegs :
        /\ CounterpartyAccount(tx) = TaAlice
        /\ legs[k].emitted
        /\ \E i \in DOMAIN result :
              result[i] = legs[k].event /\ CounterpartyField(tx, result[i]) = TaAlice

\* the counterparty the design names for a native send of the tracked address:
\* the destination of its system transfer, else the largest gainer
SendDestination(t) ==
    LET mine == { ix \in TrackedSystemTransfers(t) : ix.source = TrackedAddress }
    IN IF mine # {}
       THEN (CHOOSE ix \in mine : TRUE).destination
       ELSE LargestFirst(t, Gainers(t))

\* the tracked address holds token balances and none of them changed
TokenBalancesUntouched(t) ==
    /\ \E p \in DOMAIN t.postTokenBalances : t.postTokenBalances[p].owner = TrackedAddress
    /\ ChangedTokenBalances(t) = {}

\* C11: a successful transaction whose tracked native delta is -1_005_000_000
\* lamports, whose destination is resolvable and whose only token balance of the
\* tracked address has a zero delta yields exactly one event: sent, SOL, 1.005
\* whole units, from the tracked address to the destination.
C11_NativeSendOfOnePointZeroZeroFive ==
    ( /\ Formatted
      /\ TrackedPositions(tx) # {}
      /\ TrackedDeltaKnown(tx)
      /\ TrackedLamportDelta(tx) = -1005000000
      /\ Cardinality({ ix \in TrackedSystemTransfers(tx) : TRUE }) <= 1
      /\ SendDestination(tx) \notin {TrackedAddress, External, Undef}
      /\ TokenBalancesUntouched(tx) )
    => result = << [signature |-> tx.sig,
                    type |-> "sent",
                    token |-> "SOL",
                    amount |-> [whole |-> 1, frac |-> 5000000],
                    from |-> TrackedAddress,
                    to |-> SendDestination(tx),
                    time |-> TimeOf(tx)] >>

\* such a send was formatted with the destination taken from the balance gain
C11_Witness ==
    /\ Formatted
    /\ TrackedPositions(tx) # {}
    /\ TrackedDeltaKnown(tx)
    /\ TrackedLamportDelta(tx) = -1005000000
    /\ TrackedSystemTransfers(tx) = {}
    /\ TokenBalancesUntouched(tx)
    /\ Len(result) = 1
    /\ result[1].to = Alice

Range(seq) == { seq[i] : i \in DOMAIN seq }

\* this step is the completion of the pending request r
Completes(r) ==
    \E i \in DOMAIN inflight : inflight[i] = r /\ inflight' = Remove(inflight, i)

\* this step sends the request r
Sends(r) ==
    /\ Len(inflight') = Len(inflight) + 1
    /\ inflight'[Len(inflight')] = r

\* the events of the ledger, newest first
LedgerEvents == EventsBetween(ledger, 1, Len(ledger))

\* the events of the Limit signatures that follow the signature `before`
OlderPage(before) ==
    SelectSeq(LedgerEvents,
              LAMBDA e : e.signature > before /\ e.signature <= before + Limit)

NewestPage == OlderPage(NoSignature)

\* C12: while a page fetch is in flight a further loadMore sends no request:
\* no request of loadMore is pending behind a request sent before it, so that
\* loadMore never asks for a cursor that is being fetched.
C12_LoadMoreSuppressedWhileFetching ==
    \A j \in DOMAIN inflight : j > 1 => inflight[j].caller # "more"

\* C13: a fetch that resolves to null, reset or not, sets the error state and
\* leaves the cursor and the accumulated list as they were before the call.
C13_FailedFetchLeavesCursorAndList ==
    [][ \A r \in Range(inflight) :
          (Completes(r) /\ ~lastDone'.ok /\ ~r.overlapped)
              => ( /\ error'
                   /\ lastSignature' = r.cursorBefore
                   /\ transactions' = transactions ) ]_vars

\* C14: a fetch that resolves to a page sets hasMore to false exactly when the
\* page is empty, moves the cursor to the signature of the last event of a
\* non-empty page and leaves the cursor alone for an empty one.
C14_CursorAndHasMoreFollowThePage ==
    [][ \A r \in Range(inflight) :
          (Completes(r) /\ lastDone'.ok)
              => LET data == OlderPage(r.before)
                 IN IF data = <<>>
                    THEN hasMore' = FALSE /\ lastSignature' = lastSignature
                    ELSE /\ hasMore' = hasMore
                         /\ lastSignature' = data[Len(data)].signature
                         /\ \A k \in DOMAIN data : data[k].signature <= lastSignature' ]_vars

\* a loadMore past the end of the history resolved to the empty page: hasMore
\* fell and the cursor still names the last event loaded
C14_Witness ==
    /\ lastDone = [reset |-> FALSE, ok |-> TRUE, overlapped |-> FALSE, empty |-> TRUE]
    /\ ~hasMore
    /\ transactions # <<>>
    /\ lastSignature = transactions[Len(transactions)].signature

\* C15: fetchTransactions(true) sends its request without cursor, drops the
\* cursor and sets hasMore, and on success the list becomes the newest page;
\* fetchTransactions(false) requests the page strictly older than the current
\* cursor and on success appends it behind the untouched existing events.
C15_ResetReplacesLoadMoreAppends ==
    [][ /\ \A r \in Range(inflight') :
              Sends(r) =>
                 IF r.reset
                 THEN /\ r.before = NoSignature
                      /\ lastSignature' = NoSignature
                      /\ hasMore'
                      /\ transactions' = transactions
                 ELSE /\ r.before = lastSignature
                      /\ transactions' = transactions
        /\ \A r \in Range(inflight) :
              (Completes(r) /\ lastDone'.ok) =>
                 IF r.reset
                 THEN transactions' = NewestPage
                 ELSE /\ transactions' = transactions \o OlderPage(r.before)
                      /\ \A k \in DOMAIN OlderPage(r.before) :
                             OlderPage(r.before)[k].signature > r.before ]_vars

\* a second page was appended behind the first: the list runs through the
\* ledger without gap or repetition
C15_Witness ==
    /\ lastDone = [reset |-> FALSE, ok |-> TRUE, overlapped |-> FALSE, empty |-> FALSE]
    /\ Len(transactions) > Limit
    /\ transactions = SubSeq(LedgerEvents, 1, Len(transactions))

\* C16: with a finite history and fetches that succeed, calling loadMore again
\* and again eventually sets hasMore to false, and a loadMore invoked while
\* hasMore is false sends no request and leaves list and cursor alone.
C16_LoadMoreReachesTheEnd ==
    /\ <>(~hasMore)
    /\ [][ (~hasMore /\ moreTick' # moreTick)
              => ( /\ inflight' = inflight
                   /\ transactions' = transactions
                   /\ lastSignature' = lastSignature ) ]_vars

\* a history longer than one page was loaded to its end
C16_Witness ==
    /\ ~hasMore
    /\ ~loadingMore
    /\ inflight = <<>>
    /\ Len(LedgerEvents) > Limit
    /\ transactions = LedgerEvents
    /\ lastDone = [reset |-> FALSE, ok |-> TRUE, overlapped |-> FALSE, empty |-> TRUE]

\* C17: a fetchTransactions(true) that no other fetch overlaps ends with a list,
\* a cursor and a hasMore flag that depend on the ledger alone, so that two of
\* them against the same ledger end alike whatever was loaded before.
C17_ResetIsIdempotent ==
    [][ \A r \in Range(inflight) :
          (Completes(r) /\ lastDone'.ok /\ r.reset /\ ~r.overlapped)
              => ( /\ transactions' = NewestPage
                   /\ lastSignature' = (IF NewestPage = <<>>
                                         THEN NoSignature
                                         ELSE NewestPage[Len(NewestPage)].signature)
                   /\ hasMore' = (NewestPage # <<>>) ) ]_vars

\* the second reset completed after a loadMore had been invoked
C17_Witness ==
    /\ resets = 2
    /\ moreTick
    /\ inflight = <<>>
    /\ lastDone = [reset |-> TRUE, ok |-> TRUE, overlapped |-> FALSE, empty |-> FALSE]
    /\ transactions = NewestPage
    /\ Len(LedgerEvents) > Len(NewestPage)

EventsOfSignature(i) == SelectSeq(joined.events, LAMBDA e : e.signature = i)

\* C18: the events of a page follow the positions of their transactions in the
\* signature list whatever the order in which the transactions arrived, and a
\* signature whose transaction is null contributes nothing and moves nothing.
C18_PageOrderIsSignatureOrder ==
    (joined.done /\ ~joined.isNull) =>
        /\ \A a, b \in DOMAIN joined.events :
              a < b => joined.events[a].signature <= joined.events[b].signature
        /\ \A i \in DOMAIN slots :
              EventsOfSignature(i) =
                  IF slots[i].state = "tx"
                  THEN EventsOf(LegsOf(slots[i].tx, TrackedAddress))
                  ELSE <<>>
        /\ \A a \in DOMAIN joined.events : joined.events[a].signature \in DOMAIN slots

\* three signatures answered last to first, the middle one with null: the
\* events of the first precede those of the third
C18_Witness ==
    /\ joined.done
    /\ ~joined.isNull
    /\ arrival = <<3, 2, 1>>
    /\ slots[2] = NullTx
    /\ EventsOfSignature(1) # <<>>
    /\ EventsOfSignature(3) # <<>>
    /\ joined.events = EventsOfSignature(1) \o EventsOfSignature(3)

\* the places (section, position) of the returned list that hold the event e
PlacesOf(e) ==
    { place \in { <<k, j>> : k \in DOMAIN grouped.sections, j \in 1..MaxEvents } :
        /\ place[2] \in DOMAIN grouped.sections[place[1]].data
        /\ grouped.sections[place[1]].data[place[2]] = e }

\* C20: groupTransactionsByDate partitions its input: every event lies in
\* exactly one section exactly once, no section is empty, no two sections share
\* a title, the events of a section keep their input order, and an empty or
\* missing input gives the empty section list.
C20_GroupingIsAPartition ==
    grouped.done =>
        LET sections == grouped.sections
            list == groupInput.list
        IN IF groupInput.missing \/ list = <<>>
           THEN sections = <<>>
           ELSE /\ \A i \in DOMAIN list : Cardinality(PlacesOf(list[i])) = 1
                /\ \A k \in DOMAIN sections :
                      /\ sections[k].data # <<>>
                      /\ \A j \in DOMAIN sections[k].data :
                            \E i \in DOMAIN list : sections[k].data[j] = list[i]
                      /\ \A a, b \in DOMAIN sections[k].data :
                            a < b => sections[k].data[a].signature
                                         < sections[k].data[b].signature
                /\ \A j, k \in DOMAIN sections :
                      j # k => sections[j].title # sections[k].title

\* three events of which the first and the third share a day: two sections,
\* the first holding events 1 and 3 in that order
C20_Witness ==
    /\ grouped.done
    /\ Len(groupInput.list) = 3
    /\ Len(grouped.sections) = 2
    /\ grouped.sections[1].data = <<groupInput.list[1], groupInput.list[3]>>
    /\ grouped.sections[2].data = <<groupInput.list[2]>>

DayNumber(e) == (IF e.time.isNull THEN now ELSE e.time.ms) \div MsPerDay

\* the title of the section of the returned list that holds the event e
TitleOf(e) ==
    grouped.sections[(CHOOSE place \in PlacesOf(e) : TRUE)[1]].title

\* C22: two events share a section iff their times (a missing time counted as
\* now) fall on the same local calendar day; the section of the current day is
\* titled Today and that of the day before Yesterday, also when the day before
\* lies in another month and year.
C22_SectionsAreCalendarDays ==
    (grouped.done /\ ~groupInput.missing) =>
        /\ \A i, j \in DOMAIN groupInput.list :
              (TitleOf(groupInput.list[i]) = TitleOf(groupInput.list[j]))
                  <=> (DayNumber(groupInput.list[i]) = DayNumber(groupInput.list[j]))
        /\ \A i \in DOMAIN groupInput.list :
              /\ (TitleOf(groupInput.list[i]) = "Today")
                    <=> (DayNumber(groupInput.list[i]) = now \div MsPerDay)
              /\ (TitleOf(groupInput.list[i]) = "Yesterday")
                    <=> (DayNumber(groupInput.list[i]) = (now \div MsPerDay) - 1)

\* on 1 January an event of 23:59 the day before and one of 00:01 lie in two
\* sections, Yesterday and Today
C22_Witness ==
    /\ grouped.done
    /\ Civil(now) = [year |-> 1970, month |-> 0, date |-> 1]
    /\ \E i, j \in DOMAIN groupInput.list :
          /\ groupInput.list[i].time = [isNull |-> FALSE, ms |-> -MsPerMinute]
          /\ groupInput.list[j].time = [isNull |-> FALSE, ms |-> MsPerMinute]
          /\ TitleOf(groupInput.list[i]) = "Yesterday"
          /\ TitleOf(groupInput.list[j]) = "Today"

\* C23: in useLastTransaction a history fetch that failed ends with a non-null
\* error, a history that is genuinely empty ends with lastTransaction = null and
\* error = null, and in both cases, as after a failed price lookup,
\* isLoadTransaction is false once the fetch has completed
C23_FailedHistoryFetchSetsError ==
    hookPc = "idle" =>
        /\ hookFetch.kind = "failed" => hook.error # "null"
        /\ hookFetch.kind = "empty" => hook.lastTransaction.isNull /\ hook.error = "null"
        /\ hookFetch.kind \in {"failed", "empty", "priceFailed"}
               => ~hook.isLoadTransaction

\* a call of sendTransaction has been made and has completed
SendCompleted == sendPc = "idle" /\ promise # "none"

\* C24: sendTransaction does not throw: once a call has completed, whatever
\* failed, the promise it returned is not rejected, the failure is in the error
\* state and isLoading is false
C24_SendTransactionDoesNotThrow ==
    SendCompleted =>
        /\ promise # "rejected"
        /\ ~send.isLoading
        /\ send.signature = "null" => send.error # "null"

\* the validations of sendTransaction in their order, over the arguments of
\* the last call: wallet connected, recipient other than the own wallet,
\* recipient a public key, token known, raw amount above 0, raw amount at most
\* Number.MAX_SAFE_INTEGER
Validations ==
    << sendCall.wallet,
       sendCall.recipient # Me,
       IsPublicKey(sendCall.recipient),
       sendCall.tokenSymbol \in {"SOL", "USDC"},
       ~sendCall.amount.nan
           /\ ~NotPositive(sendCall.amount, Decimals(sendCall.tokenSymbol)),
       ~sendCall.amount.nan
           /\ ~TooLarge(sendCall.amount, Decimals(sendCall.tokenSymbol)) >>

ValidationMessages ==
    << "Wallet not connected. Please sign in.",
       "You cannot send funds to yourself.",
       "Invalid recipient address format.",
       "Unknown token selected.",
       "Amount must be greater than 0.",
       "Amount is too large to process safely." >>

\* the first validation the last call fails, if any
FirstFailed ==
    { i \in DOMAIN Validations :
        ~Validations[i] /\ \A j \in 1..(i - 1) : Validations[j] }

\* C26: sendTransaction builds instructions and requests a signature only
\* after all validations passed; when one fails the call ends at the first
\* that fails, in their order (its message is the error, NaN being refused by
\* the conversion itself), no instructions are built, no signature is requested
\* and signature stays null
C26_SignatureRequestedOnlyAfterValidation ==
    promise # "none" =>
        /\ sendCall.built \/ sendCall.signRequested \/ sendPc # "idle"
               => \A i \in DOMAIN Validations : Validations[i]
        /\ \A i \in FirstFailed :
               /\ ~sendCall.built
               /\ ~sendCall.signRequested
               /\ send.signature = "null"
               /\ promise = "rejected"
               /\ send.error = ValidationMessages[i]
                      \/ (i = 5 /\ sendCall.amount.nan /\ send.error = "RangeError")

\* a call whose raw amount is above 2^53 - 1 is refused at the last validation
C26_Witness ==
    /\ promise = "rejected"
    /\ FirstFailed = {6}
    /\ send.error = "Amount is too large to process safely."
    /\ sendCall.recipient = Alice
    /\ ~sendCall.signRequested

\* C25: every fetchTransactions call runs idle -> loading -> (success | error):
\* a reset call raises loading and every call clears the error; the completion
\* of a call lowers loading and the flag of its caller (loadingMore for
\* loadMore, refreshing for onRefresh), and when no other fetch overlapped it
\* the error is set after the completion exactly when the fetch returned null;
\* with a network that answers, loadingMore and refreshing are lowered again
\* and again, and so is loading once a fetch has been started.
C25_EveryFetchEndsLoading ==
    /\ [][ \A r \in Range(inflight') :
             Sends(r) => /\ ~error'
                         /\ r.reset => loading'
                         /\ r.caller = "more" => loadingMore'
                         /\ r.caller = "refresh" => refreshing' ]_vars
    /\ [][ \A r \in Range(inflight) :
             Completes(r) => /\ ~loading'
                             /\ r.caller = "more" => ~loadingMore'
                             /\ r.caller = "refresh" => ~refreshing'
                             /\ ~r.overlapped => (error' <=> ~lastDone'.ok) ]_vars
    /\ []<>(~loading \/ (resets = 0 /\ inflight = <<>>))
    /\ []<>(~loadingMore)
    /\ []<>(~refreshing)

\* a pull to refresh that nothing overlapped was answered with null: the
\* spinner is down and the error is shown
C25_Witness ==
    /\ lastDone = [reset |-> TRUE, ok |-> FALSE, overlapped |-> FALSE, empty |-> TRUE]
    /\ inflight = <<>>
    /\ error
    /\ ~loading
    /\ ~refreshing
    /\ resets = 2

\* C27: for every emitted event the type agrees with the addresses: the type
\* is sent iff from is the tracked address and received iff to is the tracked
\* address, also when the transaction holds several transfers that involve the
\* tracked address
C27_TypeAgreesWithAddresses ==
    \A k \in DOMAIN result :
        /\ result[k].type = "sent" <=> result[k].from = TrackedAddress
        /\ result[k].type = "received" <=> result[k].to = TrackedAddress

\* C28: when a transaction changes several token balances of the tracked
\* address or holds token transfers between third parties, the from / to of
\* each token event come from a transfer instruction whose source or
\* destination is the token account of that event, never from another one
C28_TokenAddressesFromOwnTransfer ==
    \A k \in DOMAIN legs :
        (legs[k].kind = "token" /\ legs[k].emitted /\ TokenTransferIndex(tx) # 0)
            => LET ix == AllInstructions(tx)[TokenTransferIndex(tx)]
                   own == KeyAt(tx.accountKeys, legs[k].accountIndex)
               IN ix.source = own \/ ix.destination = own

\* C29: hasMore becomes false only when the address has no older signatures:
\* a page whose transactions all format to zero events does not end the
\* pagination while older signatures that bear events remain, so when the
\* answer to a request lowers hasMore no event of the history is older than
\* the cursor of that request
C29_HasMoreFallsOnlyAtTheEnd ==
    [][ \A r \in Range(inflight) :
          (Completes(r) /\ hasMore /\ ~hasMore')
              => \A k \in DOMAIN LedgerEvents :
                     LedgerEvents[k].signature <= r.before ]_vars

\* no event is listed twice
NoEventTwice(list) ==
    \A i, j \in DOMAIN list : list[i] = list[j] => i = j

\* C30: under every interleaving of a reset fetch with a loadMore fetch, once
\* both have been answered with a page the list holds no event twice, is a
\* newest-first prefix of the history without gap, and the cursor is the
\* signature of the last event of the list
C30_InterleavedFetchesKeepTheList ==
    [][ \A r \in Range(inflight) :
          ( /\ Completes(r)
            /\ inflight' = <<>>
            /\ r.overlapped /\ lastDone'.ok
            /\ lastDone.overlapped /\ lastDone.ok
            /\ lastDone.reset # r.reset )
              => /\ NoEventTwice(transactions')
                 /\ Len(transactions') <= Len(LedgerEvents)
                 /\ transactions' = SubSeq(LedgerEvents, 1, Len(transactions'))
                 /\ transactions' # <<>>
                        => lastSignature'
                               = transactions'[Len(transactions')].signature ]_vars

====
